---- MODULE Spec2Model ----
(***************************************************************************)
(* PhysicsWorld (src/physics/PhysicsWorld.js) of ZombiesGame as a state    *)
(* machine.                                                                *)
(*                                                                         *)
(* Units.  The code computes in floating point; the model computes in     *)
(* exact integers on a grid on which every constant of the code is a      *)
(* whole number:                                                           *)
(*   length    1/1800 world unit       (0.15 -> 270, 0.05 -> 90)           *)
(*   velocity  length units per fixed step ( = 1/30 world unit / second    *)
(*             at 60 steps per second, so 0.1 -> 3)                        *)
(*   time      ticks; fixedTimeStep is TicksPerStep ticks                  *)
(*   restitution  1/100                                                    *)
(* A vector is a triple <<x, y, z>>; inverse mass is a fraction <<n, d>>.  *)
(***************************************************************************)
EXTENDS Integers, Sequences, FiniteSets, TLC

\* ------------------------------------------------------------- bounds
NumBodies == 2
MaxBodies == 3
TicksPerStep == 2
MaxDelta == 5
MaxElapsed == 8

\* ------------------------------------------------- program constants
Null == 0
groundThreshold == 270
groundLift == 90
groundTolerance == 3
gravity == <<0, 0 - 10, 0>>
fixedTimeStep == TicksPerStep

Zero3 == <<0, 0, 0>>
Bodies == 1..NumBodies
Plain == NumBodies + 1
Objs == 1..(NumBodies + 1)

VARIABLES
  bodies,        \* this.bodies: array of references to dynamic bodies
  staticBodies,  \* this.staticBodies: array of references to static bodies
  obj,           \* the heap: object reference -> fields of the object
  player,        \* engine.player?.physicsBody, Null when there is none
  accumulator,   \* this.accumulator, in ticks
  steps,         \* number of fixedUpdate runs made by update so far
  elapsed,       \* sum of the deltaTime arguments of update so far
  simTime,       \* sum of the timeStep arguments of fixedUpdate so far
  events,        \* what the most recent fixedUpdate did, in order
  lastCall,      \* the most recent call: [op, arg, ret]
  pl,            \* the Player object and its Movement controller
  now,           \* performance.now(), in milliseconds
  jumpLog,       \* the most recent successful jump and the boosts since
  zombie         \* a Zombie entity and the frame it is updated in

vars == <<bodies, staticBodies, obj, player, accumulator, steps, elapsed,
          simTime, events, lastCall, pl, now, jumpLog, zombie>>

playerVars == <<pl, now, jumpLog>>

\* ------------------------------------------------------------ helpers
\* F applied to the value of e, with e evaluated once.
With(e, F(_)) == CHOOSE r \in {F(v) : v \in {e}} : TRUE

Range(s) == {s[i] : i \in 1..Len(s)}

\* Array.prototype.indexOf: first index holding x, 0 when there is none.
IndexOf(s, x) ==
  IF \E i \in 1..Len(s) : s[i] = x
  THEN CHOOSE i \in 1..Len(s) : s[i] = x /\ \A k \in 1..(i - 1) : s[k] # x
  ELSE 0

\* Array.prototype.splice(index, 1)
Splice(s, i) == SubSeq(s, 1, i - 1) \o SubSeq(s, i + 1, Len(s))

\* A PhysicsBody as its constructor leaves it.
NewBody(static, grav, y, vy) ==
  [isBody |-> TRUE, isStatic |-> static, usesGravity |-> grav,
   mass |-> 1, invMass |-> IF static THEN <<0, 1>> ELSE <<1, 1>>,
   position |-> <<0, y, 0>>, velocity |-> <<0, vy, 0>>, force |-> Zero3,
   onGround |-> FALSE, restitution |-> 0, radius |-> 900, collider |-> Null]

\* A body given a sphere collider of its own radius.
WithCollider(body) == [body EXCEPT !.collider = body.radius]

\* An object that is not a PhysicsBody.
PlainObject ==
  [isBody |-> FALSE, isStatic |-> FALSE, usesGravity |-> FALSE,
   mass |-> 0, invMass |-> <<0, 1>>,
   position |-> Zero3, velocity |-> Zero3, force |-> Zero3,
   onGround |-> FALSE, restitution |-> 0, radius |-> 0, collider |-> Null]

Call(op, arg, ret) == [op |-> op, arg |-> arg, ret |-> ret]

\* A Movement controller as its constructor leaves it.
NewMovement ==
  [moveDirection |-> Zero3, targetVelocity |-> Zero3, lastMoveInput |-> Zero3,
   lastDirection |-> Zero3, lastSpeed |-> 0,
   directionChangeTime |-> 0, hasChangedDirection |-> FALSE]

\* No jump made yet.  first: the jump met the first-jump condition; grounded,
\* input: the player was on the ground, had move input, when it jumped;
\* boosts: forward boosts applied since the jump.
NoJump == [first |-> FALSE, grounded |-> FALSE, input |-> FALSE, boosts |-> 0]

\* A Player as its constructor leaves it.
NewPlayer ==
  [position |-> <<0, 3600, 0>>, velocity |-> Zero3, moveInput |-> Zero3,
   isJumping |-> FALSE, isSprinting |-> FALSE, jumpCount |-> 0, maxJumps |-> 2,
   onGround |-> FALSE, lastJumpTime |-> 0, jumpRequested |-> FALSE,
   jumpBufferTime |-> 0, lastGroundedTime |-> 0,
   health |-> 100, maxHealth |-> 100, isDead |-> FALSE, lastDamageTime |-> 0,
   respawnTimer |-> Null, movement |-> NewMovement]

\* A Zombie as its constructor and init leave it; times in milliseconds,
\* velocity in hundredths of a world unit per second.  removalTimer is the
\* time the timer set by processDeathState is due at, removals the number of
\* timers set, removed the effect of removeEntity; deathTime is the time at
\* which the state became 'death'; frameDelta and updated are the deltaTime of
\* the frame in progress and whether update has run in it.
NewZombie ==
  [state |-> "idle", health |-> 100, damage |-> 20, lastAttackTime |-> 0,
   timeSinceLastStateChange |-> 0, isAlive |-> TRUE, velocity |-> 0,
   removalTimer |-> Null, removals |-> 0, removed |-> FALSE,
   deathTime |-> Null, frameDelta |-> 0, updated |-> TRUE]

\* ------------------------------------------------ the body collections
\* addBody without the instanceof test.
AddBodyUnchecked(dyn, stat, o, b) ==
  IF o[b].isStatic
  THEN [bodies |-> dyn, staticBodies |-> Append(stat, b), ret |-> b]
  ELSE [bodies |-> Append(dyn, b), staticBodies |-> stat, ret |-> b]

\* addBody(body): the two arrays and the return value.
AddBodyResult(dyn, stat, o, b) ==
  IF ~o[b].isBody
  THEN [bodies |-> dyn, staticBodies |-> stat, ret |-> Null]
  ELSE IF o[b].isStatic
       THEN [bodies |-> dyn, staticBodies |-> Append(stat, b), ret |-> b]
       ELSE [bodies |-> Append(dyn, b), staticBodies |-> stat, ret |-> b]

\* removeBody(body): the two arrays.
RemoveBodyResult(dyn, stat, o, b) ==
  IF o[b].isStatic
  THEN [bodies |-> dyn,
        staticBodies |-> IF IndexOf(stat, b) # 0
                         THEN Splice(stat, IndexOf(stat, b)) ELSE stat]
  ELSE [bodies |-> IF IndexOf(dyn, b) # 0
                   THEN Splice(dyn, IndexOf(dyn, b)) ELSE dyn,
        staticBodies |-> stat]

\* clear(): the two arrays.
ClearResult(o, playerBody) ==
  IF playerBody # Null
  THEN [bodies |-> IF o[playerBody].isStatic THEN <<>> ELSE <<playerBody>>,
        staticBodies |-> IF o[playerBody].isStatic THEN <<playerBody>> ELSE <<>>]
  ELSE [bodies |-> <<>>, staticBodies |-> <<>>]

InWorld(b) == b \in Range(bodies) \cup Range(staticBodies)

simVars == <<accumulator, steps, elapsed, simTime, events>>

AddBody(b) ==
  /\ Len(bodies) + Len(staticBodies) < MaxBodies
  /\ LET r == AddBodyResult(bodies, staticBodies, obj, b) IN
       /\ bodies' = r.bodies
       /\ staticBodies' = r.staticBodies
       /\ lastCall' = Call("addBody", b, r.ret)
  /\ UNCHANGED <<zombie, obj, player, simVars, playerVars>>

RemoveBody(b) ==
  /\ LET r == RemoveBodyResult(bodies, staticBodies, obj, b) IN
       /\ bodies' = r.bodies
       /\ staticBodies' = r.staticBodies
  /\ lastCall' = Call("removeBody", b, Null)
  /\ UNCHANGED <<zombie, obj, player, simVars, playerVars>>

Clear ==
  /\ LET r == ClearResult(obj, player) IN
       /\ bodies' = r.bodies
       /\ staticBodies' = r.staticBodies
  /\ lastCall' = Call("clear", Null, Null)
  /\ UNCHANGED <<zombie, obj, player, simVars, playerVars>>

\* A caller writes body.isStatic (a plain public field).
SetStatic(b, flag) ==
  /\ obj[b].isStatic # flag
  /\ obj' = [obj EXCEPT ![b].isStatic = flag]
  /\ lastCall' = Call("setStatic", b, Null)
  /\ UNCHANGED <<zombie, bodies, staticBodies, player, simVars, playerVars>>

\* The player is constructed: its body, added to the world by the constructor,
\* is engine.player.physicsBody from now on.
SetPlayer(b) ==
  /\ player = Null
  /\ InWorld(b)
  /\ player' = b
  /\ lastCall' = Call("setPlayer", b, Null)
  /\ UNCHANGED <<zombie, bodies, staticBodies, obj, simVars, playerVars>>

InitWorld ==
  /\ bodies = <<>>
  /\ staticBodies = <<>>
  /\ \E st \in [Bodies -> BOOLEAN] :
       obj = [o \in Objs |-> IF o = Plain THEN PlainObject
                             ELSE NewBody(st[o], ~st[o], 90, 0)]
  /\ player = Null
  /\ accumulator = 0
  /\ steps = 0
  /\ elapsed = 0
  /\ simTime = 0
  /\ events = <<>>
  /\ lastCall = Call("new", Null, Null)
  /\ pl = NewPlayer
  /\ now = 0
  /\ jumpLog = NoJump
  /\ zombie = NewZombie

NextWorld ==
  \/ \E b \in Objs : AddBody(b)
  \/ \E b \in Objs : RemoveBody(b)
  \/ Clear
  \/ \E b \in Bodies, flag \in BOOLEAN : SetStatic(b, flag)
  \/ \E b \in Bodies : SetPlayer(b)

SpecWorld == InitWorld /\ [][NextWorld]_vars

\* ------------------------------------------------------- vector algebra
VAdd(u, v) == <<u[1] + v[1], u[2] + v[2], u[3] + v[3]>>
VSub(u, v) == <<u[1] - v[1], u[2] - v[2], u[3] - v[3]>>
VScale(u, k) == <<u[1] * k, u[2] * k, u[3] * k>>
Dot(u, v) == u[1] * v[1] + u[2] * v[2] + u[3] * v[3]

\* a / b rounded to the nearest grid point (b > 0).
Quot(a, b) == (2 * a + b) \div (2 * b)
VQuot(u, b) == <<Quot(u[1], b), Quot(u[2], b), Quot(u[3], b)>>

RECURSIVE SqrtSearch(_, _, _)
SqrtSearch(n, lo, hi) ==
  IF hi - lo <= 1 THEN lo
  ELSE LET mid == (lo + hi) \div 2 IN
         IF mid * mid <= n THEN SqrtSearch(n, mid, hi) ELSE SqrtSearch(n, lo, mid)

\* Vector3.length / distanceTo, exact whenever the length lies on the grid.
Min(a, b) == IF a <= b THEN a ELSE b
Max(a, b) == IF a >= b THEN a ELSE b

\* Vector3.length / distanceTo, exact whenever the length lies on the grid.
Length(u) == SqrtSearch(Dot(u, u), 0, Min(Dot(u, u) + 1, 46341))

\* ------------------------------------------------------- PhysicsBody
\* body.applyForce(f)
ApplyForce(body, f) == [body EXCEPT !.force = VAdd(@, f)]

\* body.integrateForces(timeStep): velocity += force * invMass * timeStep,
\* then the accumulated force is cleared.
IntegrateForces(body, timeStep) ==
  [body EXCEPT
     !.velocity = VAdd(@, VQuot(VScale(body.force, body.invMass[1] * timeStep),
                                body.invMass[2] * fixedTimeStep)),
     !.force = Zero3]

\* body.integrateVelocity(timeStep): position += velocity * timeStep
IntegrateVelocity(body, timeStep) ==
  [body EXCEPT
     !.position = VAdd(@, VQuot(VScale(body.velocity, timeStep), fixedTimeStep))]

\* ------------------------------------------------------- PhysicsWorld
Ev(kind, a, b) == [kind |-> kind, a |-> a, b |-> b]

Log(p, kind, a, b) == [p EXCEPT !.events = Append(@, Ev(kind, a, b))]

\* checkWorldBounds without the clamp of a downward velocity.
CheckWorldBoundsNoClamp(body) ==
  IF body.position[2] < groundThreshold
  THEN LET lifted == IF body.position[2] < 0
                     THEN [body EXCEPT !.position[2] = groundLift]
                     ELSE body
       IN IF lifted.velocity[2] <= groundTolerance
          THEN [lifted EXCEPT !.onGround = TRUE]
          ELSE lifted
  ELSE [body EXCEPT !.onGround = FALSE]

\* checkWorldBounds that takes only a falling body for grounded.
CheckWorldBoundsFalling(body) ==
  IF body.position[2] < groundThreshold
  THEN LET lifted == IF body.position[2] < 0
                     THEN [body EXCEPT !.position[2] = groundLift]
                     ELSE body
       IN IF lifted.velocity[2] < 0
          THEN [lifted EXCEPT !.onGround = TRUE, !.velocity[2] = 0]
          ELSE lifted
  ELSE [body EXCEPT !.onGround = FALSE]

\* checkWorldBounds with the else branch on the inner test as well.
CheckWorldBoundsElseFalse(body) ==
  IF body.position[2] < groundThreshold
  THEN LET lifted == IF body.position[2] < 0
                     THEN [body EXCEPT !.position[2] = groundLift]
                     ELSE body
       IN IF lifted.velocity[2] <= groundTolerance
          THEN [lifted EXCEPT !.onGround = TRUE,
                              !.velocity[2] = IF @ < 0 THEN 0 ELSE @]
          ELSE [lifted EXCEPT !.onGround = FALSE]
  ELSE [body EXCEPT !.onGround = FALSE]

\* checkWorldBounds(body)
CheckWorldBounds(body) ==
  IF body.position[2] < groundThreshold
  THEN LET lifted == IF body.position[2] < 0
                     THEN [body EXCEPT !.position[2] = groundLift]
                     ELSE body
       IN IF lifted.velocity[2] <= groundTolerance
          THEN [lifted EXCEPT !.onGround = TRUE,
                              !.velocity[2] = IF @ < 0 THEN 0 ELSE @]
          ELSE lifted
  ELSE [body EXCEPT !.onGround = FALSE]

\* collider.intersects(other) of two sphere colliders.
Intersects(A, B) ==
  LET minDist == A.collider + B.collider
      d == VSub(A.position, B.position)
  IN Dot(d, d) < minDist * minDist

\* checkCollision(bodyA, bodyB): the colliders' test when both bodies have
\* one, the sphere test on the bodies' radii otherwise.
CheckCollision(A, B) ==
  IF A.collider # Null /\ B.collider # Null
  THEN Intersects(A, B)
  ELSE LET minDist == A.radius + B.radius
           d == VSub(A.position, B.position)
       IN IF minDist <= 0 THEN FALSE ELSE Dot(d, d) < minDist * minDist

\* restitution || 0.3 and radius || 0.5 of the fallback path
RestitutionOr(body) == IF body.restitution = 0 THEN 30 ELSE body.restitution
RadiusOr(body) == IF body.radius = 0 THEN 900 ELSE body.radius

\* Vector3.normalize: the unit vector of d, in hundredths; the zero vector
\* stays the zero vector.
Normalize(d) ==
  With(Length(d), LAMBDA len : VQuot(VScale(d, 100), IF len = 0 THEN 1 ELSE len))

\* invMassA : invMassB : their sum, as whole numbers na : nb : na + nb.
InvMassA(A, B) == A.invMass[1] * B.invMass[2]
InvMassB(A, B) == B.invMass[1] * A.invMass[2]
InvMassSum(A, B) == InvMassA(A, B) + InvMassB(A, B)

\* velAlongNormal of resolveCollision, in hundredths like the normal.
VelAlongNormal(A, B, normal) == Dot(VSub(A.velocity, B.velocity), normal)

\* The fallback's impulse: both velocities, on the heap o.
FallbackImpulse(o, a, b, normal) ==
  LET e == Min(RestitutionOr(o[a]), RestitutionOr(o[b]))
      j == Quot((0 - (100 + e)) * VelAlongNormal(o[a], o[b], normal), 100)
      invMassSum == InvMassSum(o[a], o[b])
      impulseA == Quot(j * InvMassA(o[a], o[b]), invMassSum)
      impulseB == Quot(j * InvMassB(o[a], o[b]), invMassSum)
      o1 == IF o[a].invMass[1] > 0
            THEN [o EXCEPT ![a].velocity = VAdd(@, VQuot(VScale(normal, impulseA), 10000))]
            ELSE o
  IN IF o[b].invMass[1] > 0
     THEN [o1 EXCEPT ![b].velocity = VSub(@, VQuot(VScale(normal, impulseB), 10000))]
     ELSE o1

\* The fallback's position correction, 0.8 of the overlap of the two radii.
FallbackCorrection(o, a, b, normal) ==
  LET minDist == RadiusOr(o[a]) + RadiusOr(o[b])
      dist == Length(VSub(o[a].position, o[b].position))
      correction == 8 * Max(minDist - dist, 0)
      invMassSum == InvMassSum(o[a], o[b])
      corrA == VQuot(VScale(normal, correction * InvMassA(o[a], o[b])), 1000 * invMassSum)
      corrB == VQuot(VScale(normal, correction * InvMassB(o[a], o[b])), 1000 * invMassSum)
      o1 == IF correction > 0 /\ o[a].invMass[1] > 0
            THEN [o EXCEPT ![a].position = VAdd(@, corrA)]
            ELSE o
  IN IF correction > 0 /\ o[b].invMass[1] > 0
     THEN [o1 EXCEPT ![b].position = VSub(@, corrB)]
     ELSE o1

\* The ground flag given to bodyA whether or not it is the player's body.
GroundFromContactAnyBody(o, a, normal, playerBody) ==
  IF normal[2] > 70
  THEN [o EXCEPT ![a].onGround = TRUE]
  ELSE o

\* The ground flag a contact from below gives the player's body.
GroundFromContact(o, a, normal, playerBody) ==
  IF normal[2] > 70 /\ a = playerBody
  THEN [o EXCEPT ![a].onGround = TRUE]
  ELSE o

\* No collision info.
NoInfo == [hit |-> FALSE, normal |-> Zero3, depth |-> 0]

\* body.checkCollision(other): the contact of two sphere colliders, its unit
\* normal (in hundredths) pointing from other to body; no info when a collider
\* is missing or the colliders do not touch.
BodyCheckCollision(A, B) ==
  IF A.collider # Null /\ B.collider # Null /\ Intersects(A, B)
  THEN With(VSub(A.position, B.position), LAMBDA d :
         [hit |-> TRUE, normal |-> Normalize(d),
          depth |-> A.collider + B.collider - Length(d)])
  ELSE NoInfo

\* The collision info resolveCollision gets: from bodyA, or else from bodyB
\* with the normal inverted.
CollisionInfo(A, B) ==
  With(BodyCheckCollision(A, B), LAMBDA fromA :
    IF fromA.hit THEN fromA
    ELSE With(BodyCheckCollision(B, A), LAMBDA fromB :
           IF fromB.hit THEN [fromB EXCEPT !.normal = VScale(@, 0 - 1)]
           ELSE fromB))

\* The collider path's impulse without the restitution.
ColliderImpulseNoRestitution(o, a, b, normal) ==
  LET j == 0 - VelAlongNormal(o[a], o[b], normal)
      invMassSum == InvMassSum(o[a], o[b])
      impulseA == Quot(j * InvMassA(o[a], o[b]), invMassSum)
      impulseB == Quot(j * InvMassB(o[a], o[b]), invMassSum)
  IN [o EXCEPT ![a].velocity = VAdd(@, VQuot(VScale(normal, impulseA), 10000)),
               ![b].velocity = VSub(@, VQuot(VScale(normal, impulseB), 10000))]

\* The collider path's impulse: both velocities, on the heap o.
ColliderImpulse(o, a, b, normal) ==
  LET restitution == Min(o[a].restitution, o[b].restitution)
      j == Quot((0 - (100 + restitution)) * VelAlongNormal(o[a], o[b], normal), 100)
      invMassSum == InvMassSum(o[a], o[b])
      impulseA == Quot(j * InvMassA(o[a], o[b]), invMassSum)
      impulseB == Quot(j * InvMassB(o[a], o[b]), invMassSum)
      o1 == IF o[a].invMass[1] > 0
            THEN [o EXCEPT ![a].velocity = VAdd(@, VQuot(VScale(normal, impulseA), 10000))]
            ELSE o
  IN IF o[b].invMass[1] > 0
     THEN [o1 EXCEPT ![b].velocity = VSub(@, VQuot(VScale(normal, impulseB), 10000))]
     ELSE o1

\* The collider path's position correction with the depth shared equally,
\* whatever the inverse masses.
ColliderCorrectionEqualShare(o, a, b, normal, depth) ==
  LET corr == VQuot(VScale(normal, depth), 200)
  IN IF depth > 0
     THEN [o EXCEPT ![a].position = VAdd(@, corr), ![b].position = VSub(@, corr)]
     ELSE o

\* The collider path's position correction, the whole depth.
ColliderCorrection(o, a, b, normal, depth) ==
  LET invMassSum == InvMassSum(o[a], o[b])
      corrA == VQuot(VScale(normal, depth * InvMassA(o[a], o[b])), 100 * invMassSum)
      corrB == VQuot(VScale(normal, depth * InvMassB(o[a], o[b])), 100 * invMassSum)
      o1 == IF depth > 0 /\ o[a].invMass[1] > 0
            THEN [o EXCEPT ![a].position = VAdd(@, corrA)]
            ELSE o
  IN IF depth > 0 /\ o[b].invMass[1] > 0
     THEN [o1 EXCEPT ![b].position = VSub(@, corrB)]
     ELSE o1

\* The collider path without the test for separating bodies.
ResolveColliderNoSkip(o, a, b, info, playerBody) ==
  IF InvMassSum(o[a], o[b]) = 0 THEN o
  ELSE With(ColliderImpulse(o, a, b, info.normal), LAMBDA o2 :
       With(ColliderCorrection(o2, a, b, info.normal, info.depth), LAMBDA o4 :
         GroundFromContact(o4, a, info.normal, playerBody)))

\* resolveCollision(bodyA, bodyB) with explicit collision info, on the heap o.
ResolveCollider(o, a, b, info, playerBody) ==
  IF VelAlongNormal(o[a], o[b], info.normal) > 0 THEN o
  ELSE IF InvMassSum(o[a], o[b]) = 0 THEN o
  ELSE With(ColliderImpulse(o, a, b, info.normal), LAMBDA o2 :
       With(ColliderCorrection(o2, a, b, info.normal, info.depth), LAMBDA o4 :
         GroundFromContact(o4, a, info.normal, playerBody)))

\* resolveCollision(bodyA, bodyB), the radius fallback, on the heap o.
ResolveFallback(o, a, b, playerBody) ==
  With(Normalize(VSub(o[a].position, o[b].position)), LAMBDA normal :
    IF VelAlongNormal(o[a], o[b], normal) > 0 THEN o
    ELSE IF InvMassSum(o[a], o[b]) = 0 THEN o
    ELSE With(FallbackImpulse(o, a, b, normal), LAMBDA o2 :
         With(FallbackCorrection(o2, a, b, normal), LAMBDA o4 :
           GroundFromContact(o4, a, normal, playerBody))))

\* resolveCollision(bodyA, bodyB): the collider path when a body yields
\* collision info, the radius fallback otherwise.
ResolveCollision(o, a, b, playerBody) ==
  With(CollisionInfo(o[a], o[b]), LAMBDA collisionInfo :
    IF collisionInfo.hit
    THEN ResolveCollider(o, a, b, collisionInfo, playerBody)
    ELSE ResolveFallback(o, a, b, playerBody))

\* One pair of detectCollisions: the test and, on contact, the resolution.
TestPair(p, a, b, playerBody) ==
  IF CheckCollision(p.obj[a], p.obj[b])
  THEN [obj |-> ResolveCollision(p.obj, a, b, playerBody),
        events |-> p.events \o <<Ev("test", a, b), Ev("resolve", a, b)>>]
  ELSE Log(p, "test", a, b)

RECURSIVE DynamicLoop(_, _, _, _, _)
DynamicLoop(p, dyn, i, j, playerBody) ==
  IF j > Len(dyn) THEN p
  ELSE With(TestPair(p, dyn[i], dyn[j], playerBody), LAMBDA q :
         DynamicLoop(q, dyn, i, j + 1, playerBody))

RECURSIVE StaticLoop(_, _, _, _, _)
StaticLoop(p, a, stat, k, playerBody) ==
  IF k > Len(stat) THEN p
  ELSE With(TestPair(p, a, stat[k], playerBody), LAMBDA q :
         StaticLoop(q, a, stat, k + 1, playerBody))

GroundCheck(p, a) ==
  [Log(p, "ground", a, Null) EXCEPT !.obj[a] = CheckWorldBounds(@)]

\* detectCollisions with the ground check of a body after its pair loops.
RECURSIVE DetectLoopGroundLast(_, _, _, _, _)
DetectLoopGroundLast(p, dyn, stat, i, playerBody) ==
  IF i > Len(dyn) THEN p
  ELSE With(DynamicLoop(p, dyn, i, i + 1, playerBody), LAMBDA p1 :
       With(StaticLoop(p1, dyn[i], stat, 1, playerBody), LAMBDA p2 :
       With(GroundCheck(p2, dyn[i]), LAMBDA p3 :
         DetectLoopGroundLast(p3, dyn, stat, i + 1, playerBody))))

\* detectCollisions with the loop over the dynamic bodies started at the
\* first body for every body A.
RECURSIVE DetectLoopAllPairs(_, _, _, _, _)
DetectLoopAllPairs(p, dyn, stat, i, playerBody) ==
  IF i > Len(dyn) THEN p
  ELSE With(GroundCheck(p, dyn[i]), LAMBDA p1 :
       With(DynamicLoop(p1, dyn, i, 1, playerBody), LAMBDA p2 :
       With(StaticLoop(p2, dyn[i], stat, 1, playerBody), LAMBDA p3 :
         DetectLoopAllPairs(p3, dyn, stat, i + 1, playerBody))))

RECURSIVE DetectLoop(_, _, _, _, _)
DetectLoop(p, dyn, stat, i, playerBody) ==
  IF i > Len(dyn) THEN p
  ELSE With(GroundCheck(p, dyn[i]), LAMBDA p1 :
       With(DynamicLoop(p1, dyn, i, i + 1, playerBody), LAMBDA p2 :
       With(StaticLoop(p2, dyn[i], stat, 1, playerBody), LAMBDA p3 :
         DetectLoop(p3, dyn, stat, i + 1, playerBody))))

\* detectCollisions()
DetectCollisions(p, dyn, stat, playerBody) == DetectLoop(p, dyn, stat, 1, playerBody)

GravityAndForces(p, a, timeStep) ==
  LET body == p.obj[a]
      pushed == IF body.usesGravity
                THEN ApplyForce(body, VScale(gravity, body.mass))
                ELSE body
  IN [Log(p, "force", a, Null) EXCEPT !.obj[a] = IntegrateForces(pushed, timeStep)]

RECURSIVE ForcesLoop(_, _, _, _)
ForcesLoop(p, dyn, i, timeStep) ==
  IF i > Len(dyn) THEN p
  ELSE With(GravityAndForces(p, dyn[i], timeStep), LAMBDA q :
         ForcesLoop(q, dyn, i + 1, timeStep))

MoveBody(p, a, timeStep) ==
  [Log(p, "move", a, Null) EXCEPT !.obj[a] = IntegrateVelocity(@, timeStep)]

RECURSIVE MoveLoop(_, _, _, _)
MoveLoop(p, dyn, i, timeStep) ==
  IF i > Len(dyn) THEN p
  ELSE With(MoveBody(p, dyn[i], timeStep), LAMBDA q :
         MoveLoop(q, dyn, i + 1, timeStep))

\* fixedUpdate that integrates the positions before it detects collisions.
FixedUpdateMoveFirst(o, dyn, stat, playerBody, timeStep) ==
  With(ForcesLoop([obj |-> o, events |-> <<>>], dyn, 1, timeStep), LAMBDA p1 :
  With(MoveLoop(p1, dyn, 1, timeStep), LAMBDA p2 :
    DetectCollisions(p2, dyn, stat, playerBody)))

\* fixedUpdate(timeStep) on the heap o; the result is the heap and the log.
FixedUpdate(o, dyn, stat, playerBody, timeStep) ==
  With(ForcesLoop([obj |-> o, events |-> <<>>], dyn, 1, timeStep), LAMBDA p1 :
  With(DetectCollisions(p1, dyn, stat, playerBody), LAMBDA p2 :
    MoveLoop(p2, dyn, 1, timeStep)))

\* The loop test with > in place of >=.
StepDueStrict(acc) == acc > fixedTimeStep

\* The loop test of update.
StepDue(acc) == acc >= fixedTimeStep

\* The body of update's loop.
UpdateStep(w, dyn, stat, playerBody) ==
  With(FixedUpdate(w.obj, dyn, stat, playerBody, fixedTimeStep), LAMBDA p :
    [obj |-> p.obj, events |-> p.events,
     accumulator |-> w.accumulator - fixedTimeStep,
     steps |-> w.steps + 1, simTime |-> w.simTime + fixedTimeStep])

\* update with an if in place of the while.
UpdateOnce(w, dyn, stat, playerBody) ==
  IF w.accumulator >= fixedTimeStep THEN UpdateStep(w, dyn, stat, playerBody) ELSE w

RECURSIVE UpdateLoop(_, _, _, _)
UpdateLoop(w, dyn, stat, playerBody) ==
  IF StepDue(w.accumulator)
  THEN With(UpdateStep(w, dyn, stat, playerBody), LAMBDA w1 :
         UpdateLoop(w1, dyn, stat, playerBody))
  ELSE w

\* update(deltaTime)
UpdateCall(deltaTime) ==
  /\ \E w \in {UpdateLoop([obj |-> obj, events |-> events,
                           accumulator |-> accumulator + deltaTime,
                           steps |-> steps, simTime |-> simTime],
                          bodies, staticBodies, player)} :
        /\ obj' = w.obj
        /\ events' = w.events
        /\ accumulator' = w.accumulator
        /\ steps' = w.steps
        /\ simTime' = w.simTime
  /\ elapsed' = elapsed + deltaTime
  /\ lastCall' = Call("update", Null, Null)
  /\ UNCHANGED <<zombie, bodies, staticBodies, player, playerVars>>

\* update(deltaTime) within the bound on the time simulated.
Update(deltaTime) ==
  /\ elapsed + deltaTime <= MaxElapsed
  /\ UpdateCall(deltaTime)

\* The bodies a world is populated with: dynamic bodies below, in and above
\* the ground region, falling, resting and rising, one of them far above
\* the others; a static body above the ground region; a static and a falling
\* body with sphere colliders.
InitBodies ==
  {NewBody(FALSE, TRUE, y, vy) : y \in {0 - 90, 90, 900}, vy \in {0 - 150, 0}}
  \cup {NewBody(FALSE, TRUE, 270, 0), NewBody(FALSE, TRUE, 90, 4),
        NewBody(FALSE, TRUE, 2700, 0 - 150)}
  \cup {NewBody(FALSE, FALSE, 90, 0), NewBody(FALSE, FALSE, 900, 0 - 150)}
  \cup {NewBody(TRUE, FALSE, 1800, 0)}
  \cup {WithCollider(NewBody(TRUE, FALSE, 1800, 0)),
        WithCollider(NewBody(FALSE, TRUE, 2700, 0 - 150))}

Ids == [i \in 1..NumBodies |-> i]

\* A world after its bodies were added in the order of their references; a
\* body of `present` is in the world, the player's body is the first one.
Init ==
  /\ \E f \in [Bodies -> InitBodies], present \in SUBSET Bodies :
       LET IsDynamic(i) == i \in present /\ ~f[i].isStatic
           IsStatic(i) == i \in present /\ f[i].isStatic
       IN /\ \A i \in Bodies \ present : f[i] = NewBody(FALSE, TRUE, 90, 0)
          /\ obj = [o \in Objs |-> IF o = Plain THEN PlainObject ELSE f[o]]
          /\ bodies = SelectSeq(Ids, IsDynamic)
          /\ staticBodies = SelectSeq(Ids, IsStatic)
          /\ player \in {Null} \cup {i \in {1} : IsDynamic(i)}
  /\ accumulator = 0
  /\ steps = 0
  /\ elapsed = 0
  /\ simTime = 0
  /\ events = <<>>
  /\ lastCall = Call("new", Null, Null)
  /\ pl = NewPlayer
  /\ now = 0
  /\ jumpLog = NoJump
  /\ zombie = NewZombie

Next == \E deltaTime \in 0..MaxDelta : Update(deltaTime)

Spec == Init /\ [][Next]_vars

\* ------------------------------------------ update after a long frame
\* A frame that lasted six fixed time steps, and the time simulated.
SpikeDelta == 6 * fixedTimeStep
MaxSpikeElapsed == SpikeDelta + fixedTimeStep

\* update(deltaTime) after a short or a long frame.
LongUpdate(deltaTime) ==
  /\ elapsed + deltaTime <= MaxSpikeElapsed
  /\ UpdateCall(deltaTime)

NextSpike == \E deltaTime \in {1, SpikeDelta} : LongUpdate(deltaTime)

SpecSpike == Init /\ [][NextSpike]_vars

\* ------------------------------------------ the ground check on its own
\* checkWorldBounds(body) applied to a body of the world.
CheckBounds(b) ==
  /\ obj' = [obj EXCEPT ![b] = CheckWorldBounds(@)]
  /\ lastCall' = Call("checkWorldBounds", b, Null)
  /\ UNCHANGED <<zombie, bodies, staticBodies, player, simVars, playerVars>>

InitGround ==
  /\ bodies = <<1>>
  /\ staticBodies = <<>>
  /\ \E y \in {0 - 90, 0 - 1, 0, 90, 269, 270, 271, 900},
        vy \in {0 - 150, 0 - 1, 0, 2, 3, 4, 150},
        g \in BOOLEAN :
       obj = [o \in Objs |->
                IF o = Plain THEN PlainObject
                ELSE [NewBody(FALSE, TRUE, y, vy) EXCEPT !.onGround = g]]
  /\ player = Null
  /\ accumulator = 0
  /\ steps = 0
  /\ elapsed = 0
  /\ simTime = 0
  /\ events = <<>>
  /\ lastCall = Call("new", Null, Null)
  /\ pl = NewPlayer
  /\ now = 0
  /\ jumpLog = NoJump
  /\ zombie = NewZombie

NextGround == \E b \in Range(bodies) : CheckBounds(b)

SpecGround == InitGround /\ [][NextGround]_vars

\* ------------------------------------------ a body in free fall
\* A world of one dynamic body at or above the ground threshold, at rest,
\* falling, or falling faster than the threshold is high per fixed step (the
\* speed a body has after a fall of 4.2 world units).
InitFall ==
  /\ bodies = <<1>>
  /\ staticBodies = <<>>
  /\ \E y \in {groundThreshold, 1800, 3600},
        vy \in {0, 0 - 150, 0 - groundThreshold - 30},
        gravitates \in BOOLEAN :
       obj = [o \in Objs |->
                IF o = Plain THEN PlainObject
                ELSE NewBody(FALSE, gravitates, y, vy)]
  /\ player = Null
  /\ accumulator = 0
  /\ steps = 0
  /\ elapsed = 0
  /\ simTime = 0
  /\ events = <<>>
  /\ lastCall = Call("new", Null, Null)
  /\ pl = NewPlayer
  /\ now = 0
  /\ jumpLog = NoJump
  /\ zombie = NewZombie

SpecFall == InitFall /\ [][Next]_vars

\* ------------------------------------------ the resolver on its own
\* A body of the pair resolveCollision is called with.
PairBody(invMass, e, pos, vel, col, g) ==
  [NewBody(invMass[1] = 0, FALSE, 0, 0) EXCEPT
     !.mass = invMass[2], !.invMass = invMass, !.restitution = e,
     !.position = pos, !.velocity = vel, !.onGround = g,
     !.collider = IF col THEN 900 ELSE Null]

\* Bodies in contact: the first one above, beside or below the second one;
\* dynamic bodies of mass 1 and 2 and static ones; restitution 0, 0.2 and 1.
PairFirst(g) ==
  {PairBody(m, e, pos, vel, col, g) :
     m \in {<<1, 1>>, <<1, 2>>, <<0, 1>>},
     e \in {0, 100},
     pos \in {<<0, 900, 0>>, <<0, 1350, 0>>, <<540, 720, 0>>, <<720, 540, 0>>,
              <<0, 0 - 900, 0>>},
     vel \in {<<0, 0 - 100, 0>>, <<100, 0 - 100, 0>>, <<0, 100, 0>>},
     col \in BOOLEAN}

PairSecond(g) ==
  {PairBody(m, e, Zero3, vel, col, g) :
     m \in {<<1, 1>>, <<0, 1>>},
     e \in {0, 20, 100},
     vel \in {Zero3, <<0, 100, 0>>},
     col \in BOOLEAN}

\* The call resolveCollision(bodyA, bodyB) detectCollisions makes for a pair
\* its checkCollision reported.
Resolve(a, b) ==
  /\ a # b
  /\ CheckCollision(obj[a], obj[b])
  /\ \E o \in {ResolveCollision(obj, a, b, player)} : obj' = o
  /\ lastCall' = Call("resolveCollision", <<a, b>>, Null)
  /\ UNCHANGED <<zombie, bodies, staticBodies, player, simVars, playerVars>>

InitResolve ==
  /\ \E g \in BOOLEAN : \E A \in PairFirst(g), B \in PairSecond(g) :
       /\ obj = [o \in Objs |-> IF o = 1 THEN A
                                ELSE IF o = 2 THEN B
                                ELSE IF o = Plain THEN PlainObject
                                ELSE NewBody(FALSE, TRUE, 90, 0)]
       /\ bodies = SelectSeq(<<1, 2>>, LAMBDA i : obj[i].invMass[1] > 0)
       /\ staticBodies = SelectSeq(<<1, 2>>, LAMBDA i : obj[i].invMass[1] = 0)
  /\ player \in {Null} \cup {i \in {1, 2} : obj[i].invMass[1] > 0}
  /\ accumulator = 0
  /\ steps = 0
  /\ elapsed = 0
  /\ simTime = 0
  /\ events = <<>>
  /\ lastCall = Call("new", Null, Null)
  /\ pl = NewPlayer
  /\ now = 0
  /\ jumpLog = NoJump
  /\ zombie = NewZombie

NextResolve == \E a, b \in {1, 2} : Resolve(a, b)

SpecResolve == InitResolve /\ [][NextResolve]_vars

\* ------------------------------------------------------- Movement
\* Speeds in velocity units (1/30 world unit per second), accelerations in
\* world units per second squared, times in milliseconds.
walkSpeed == 180
runSpeed == 300
maxSpeed == 360
groundAcceleration == 150
airAcceleration == 20
stopAcceleration == 200
dirChangeBoostMultiplier == 3
jumpForce == 225
jumpBoostSpeed == 36
slowSpeed == 60
restSpeed == 3
directionChangeThreshold == 8500
directionChangeWindow == 100

Horizontal(v) == <<v[1], 0, v[3]>>

\* The move input of update, normalized when longer than 1, in hundredths.
InputOf(moveInput) ==
  IF Dot(moveInput, moveInput) > 1 THEN Normalize(moveInput)
  ELSE VScale(moveInput, 100)

\* calculateMoveDirection(moveInput) with the view turned to the front:
\* forward is (0, 0, -1), right is (1, 0, 0).
CalculateMoveDirection(input) ==
  With(<<input[1], 0, input[3]>>, LAMBDA d :
    IF Dot(d, d) > 0 THEN Normalize(d) ELSE d)

\* detectDirectionChange() with a flag that never expires.
DetectDirectionChangeNoExpiry(m, t) ==
  IF Dot(m.lastDirection, m.lastDirection) = 0
  THEN [m EXCEPT !.hasChangedDirection = FALSE]
  ELSE IF Dot(m.lastDirection, m.moveDirection) < directionChangeThreshold
       THEN [m EXCEPT !.hasChangedDirection = TRUE, !.directionChangeTime = t]
       ELSE m

\* detectDirectionChange() at time t
DetectDirectionChange(m, t) ==
  IF Dot(m.lastDirection, m.lastDirection) = 0
  THEN [m EXCEPT !.hasChangedDirection = FALSE]
  ELSE IF Dot(m.lastDirection, m.moveDirection) < directionChangeThreshold
       THEN [m EXCEPT !.hasChangedDirection = TRUE, !.directionChangeTime = t]
       ELSE [m EXCEPT !.hasChangedDirection =
                        @ /\ (t - m.directionChangeTime < directionChangeWindow)]

\* The new horizontal velocity of applyAccelerationWithMomentum, before the
\* limit on the speed.
Accelerated(p, currentVelocity, currentSpeed, deltaTime) ==
  LET m == p.movement IN
  IF m.hasChangedDirection /\ currentSpeed > slowSpeed
  THEN VQuot(VAdd(currentVelocity, m.targetVelocity), 2)
  ELSE LET base == IF p.onGround THEN groundAcceleration ELSE airAcceleration
           boosted == IF currentSpeed < slowSpeed \/ m.hasChangedDirection
                      THEN base * dirChangeBoostMultiplier ELSE base
           accel10 == IF p.onGround THEN 10 * boosted ELSE 9 * boosted
           share == Min(accel10 * deltaTime, 10000)
       IN VAdd(currentVelocity,
               VQuot(VScale(VSub(m.targetVelocity, currentVelocity), share), 10000))

\* applyAccelerationWithMomentum(deltaTime): the player and its body.
ApplyAccelerationWithMomentum(p, body, deltaTime) ==
  With(Horizontal(body.velocity), LAMBDA currentVelocity :
  With(Accelerated(p, currentVelocity, Length(currentVelocity), deltaTime),
       LAMBDA newVelocity :
  With(Length(newVelocity), LAMBDA newSpeed :
  With(IF newSpeed > maxSpeed
       THEN VQuot(VScale(newVelocity, maxSpeed), newSpeed)
       ELSE newVelocity, LAMBDA limited :
    IF p.isJumping /\ p.jumpCount = 1
    THEN [pl |-> [p EXCEPT !.isJumping = FALSE],
          body |-> [body EXCEPT
             !.velocity[1] = limited[1]
                + Quot(p.movement.moveDirection[1] * jumpBoostSpeed, 100),
             !.velocity[3] = limited[3]
                + Quot(p.movement.moveDirection[3] * jumpBoostSpeed, 100)]]
    ELSE [pl |-> p,
          body |-> [body EXCEPT !.velocity[1] = limited[1],
                                !.velocity[3] = limited[3]]]))))

\* applyStopForce(deltaTime) taking the deceleration off all three components.
ApplyStopForceAllAxes(p, body, deltaTime) ==
  With(Horizontal(body.velocity), LAMBDA horizontalVelocity :
  With(Length(horizontalVelocity), LAMBDA speed :
    IF speed < restSpeed
    THEN [body EXCEPT !.velocity = Zero3]
    ELSE LET stopAccel10 == IF p.onGround THEN 10 * stopAcceleration
                            ELSE 2 * stopAcceleration
             deceleration == Min(speed, Quot(3 * stopAccel10 * deltaTime, 1000))
         IN [body EXCEPT
               !.velocity = VSub(@, VQuot(VScale(@, deceleration), speed))]))

\* applyStopForce(deltaTime) with no deceleration in the air.
ApplyStopForceGroundOnly(p, body, deltaTime) ==
  With(Horizontal(body.velocity), LAMBDA horizontalVelocity :
  With(Length(horizontalVelocity), LAMBDA speed :
    IF speed < restSpeed
    THEN [body EXCEPT !.velocity[1] = 0, !.velocity[3] = 0]
    ELSE LET deceleration == IF p.onGround
                             THEN Min(speed, Quot(30 * stopAcceleration * deltaTime, 1000))
                             ELSE 0
         IN [body EXCEPT
               !.velocity[1] = @ - Quot(horizontalVelocity[1] * deceleration, speed),
               !.velocity[3] = @ - Quot(horizontalVelocity[3] * deceleration, speed)]))

\* applyStopForce(deltaTime): the body.  direction * deceleration is computed
\* as velocity * deceleration / speed, which loses nothing to the rounding of
\* the unit vector.
ApplyStopForce(p, body, deltaTime) ==
  With(Horizontal(body.velocity), LAMBDA horizontalVelocity :
  With(Length(horizontalVelocity), LAMBDA speed :
    IF speed < restSpeed
    THEN [body EXCEPT !.velocity[1] = 0, !.velocity[3] = 0]
    ELSE LET stopAccel10 == IF p.onGround THEN 10 * stopAcceleration
                            ELSE 2 * stopAcceleration
             deceleration == Min(speed, Quot(3 * stopAccel10 * deltaTime, 1000))
         IN [body EXCEPT
               !.velocity[1] = @ - Quot(horizontalVelocity[1] * deceleration, speed),
               !.velocity[3] = @ - Quot(horizontalVelocity[3] * deceleration, speed)]))

\* Movement.update(deltaTime) at time t: the player and its body.
MovementUpdate(p, body, deltaTime, t) ==
  With(InputOf(p.moveInput), LAMBDA moveInput :
  With(IF Dot(moveInput, moveInput) > 0
       THEN With(CalculateMoveDirection(moveInput), LAMBDA dir :
            With(DetectDirectionChange(
                   [p.movement EXCEPT !.moveDirection = dir], t), LAMBDA m :
            With([m EXCEPT !.targetVelocity =
                    VQuot(VScale(dir, IF p.isSprinting THEN runSpeed ELSE walkSpeed),
                          100)], LAMBDA m2 :
              ApplyAccelerationWithMomentum([p EXCEPT !.movement = m2], body,
                                            deltaTime))))
       ELSE [pl |-> p, body |-> ApplyStopForce(p, body, deltaTime)], LAMBDA r :
    [pl |-> [r.pl EXCEPT
               !.movement.lastMoveInput = moveInput,
               !.movement.lastDirection =
                  IF Dot(r.pl.movement.moveDirection, r.pl.movement.moveDirection) > 0
                  THEN r.pl.movement.moveDirection ELSE @,
               !.movement.lastSpeed = Length(r.body.velocity)],
     body |-> r.body]))

\* applyJumpBoost()
ApplyJumpBoost(p) ==
  IF Dot(p.movement.moveDirection, p.movement.moveDirection) > 0 /\ p.onGround
  THEN [p EXCEPT !.isJumping = TRUE]
  ELSE p

\* --------------------------------------------------------- Player
jumpBufferWindow == 200
coyoteTime == 150
jumpCooldown == 100
invulnerabilityDuration == 500
respawnDelay == 3000

\* bounds of the player's clock
StartClock == 1000
ClockStep == 100
MaxClock == 1300

\* processJump() without the cooldown between two jumps.
ProcessJumpNoCooldown(p, body, currentTime) ==
  LET inCoyoteTime == currentTime - p.lastGroundedTime < coyoteTime
      canFirstJump == p.onGround \/ inCoyoteTime
  IN IF canFirstJump /\ p.jumpCount = 0
     THEN [pl |-> ApplyJumpBoost([p EXCEPT !.jumpCount = 1,
                                           !.lastJumpTime = currentTime]),
           body |-> [body EXCEPT !.velocity[2] = jumpForce],
           ret |-> TRUE]
     ELSE IF ~canFirstJump /\ p.jumpCount < p.maxJumps
     THEN [pl |-> [p EXCEPT !.jumpCount = @ + 1, !.lastJumpTime = currentTime],
           body |-> [body EXCEPT !.velocity[2] = Quot(9 * jumpForce, 10)],
           ret |-> TRUE]
     ELSE [pl |-> p, body |-> body, ret |-> FALSE]

\* processJump() with the second jump allowed on the ground and inside the
\* coyote time.
ProcessJumpNoCoyoteTest(p, body, currentTime) ==
  LET inCoyoteTime == currentTime - p.lastGroundedTime < coyoteTime
      canFirstJump == p.onGround \/ inCoyoteTime
  IN IF currentTime - p.lastJumpTime < jumpCooldown
     THEN [pl |-> p, body |-> body, ret |-> FALSE]
     ELSE IF canFirstJump /\ p.jumpCount = 0
     THEN [pl |-> ApplyJumpBoost([p EXCEPT !.jumpCount = 1,
                                           !.lastJumpTime = currentTime]),
           body |-> [body EXCEPT !.velocity[2] = jumpForce],
           ret |-> TRUE]
     ELSE IF p.jumpCount < p.maxJumps
     THEN [pl |-> [p EXCEPT !.jumpCount = @ + 1, !.lastJumpTime = currentTime],
           body |-> [body EXCEPT !.velocity[2] = Quot(9 * jumpForce, 10)],
           ret |-> TRUE]
     ELSE [pl |-> p, body |-> body, ret |-> FALSE]

\* processJump() without the limit on the jumps made in the air.
ProcessJumpUnlimited(p, body, currentTime) ==
  LET inCoyoteTime == currentTime - p.lastGroundedTime < coyoteTime
      canFirstJump == p.onGround \/ inCoyoteTime
  IN IF currentTime - p.lastJumpTime < jumpCooldown
     THEN [pl |-> p, body |-> body, ret |-> FALSE]
     ELSE IF canFirstJump /\ p.jumpCount = 0
     THEN [pl |-> ApplyJumpBoost([p EXCEPT !.jumpCount = 1,
                                           !.lastJumpTime = currentTime]),
           body |-> [body EXCEPT !.velocity[2] = jumpForce],
           ret |-> TRUE]
     ELSE IF ~canFirstJump
     THEN [pl |-> [p EXCEPT !.jumpCount = @ + 1, !.lastJumpTime = currentTime],
           body |-> [body EXCEPT !.velocity[2] = Quot(9 * jumpForce, 10)],
           ret |-> TRUE]
     ELSE [pl |-> p, body |-> body, ret |-> FALSE]

\* processJump() at time currentTime: the player, its body and the result.
ProcessJump(p, body, currentTime) ==
  LET inCoyoteTime == currentTime - p.lastGroundedTime < coyoteTime
      canFirstJump == p.onGround \/ inCoyoteTime
  IN IF currentTime - p.lastJumpTime < jumpCooldown
     THEN [pl |-> p, body |-> body, ret |-> FALSE]
     ELSE IF canFirstJump /\ p.jumpCount = 0
     THEN [pl |-> ApplyJumpBoost([p EXCEPT !.jumpCount = 1,
                                           !.lastJumpTime = currentTime]),
           body |-> [body EXCEPT !.velocity[2] = jumpForce],
           ret |-> TRUE]
     ELSE IF ~canFirstJump /\ p.jumpCount < p.maxJumps
     THEN [pl |-> [p EXCEPT !.jumpCount = @ + 1, !.lastJumpTime = currentTime],
           body |-> [body EXCEPT !.velocity[2] = Quot(9 * jumpForce, 10)],
           ret |-> TRUE]
     ELSE [pl |-> p, body |-> body, ret |-> FALSE]

\* The ground state part of update without the reset of jumpCount.
TrackGroundNoReset(p, body, currentTime) ==
  LET wasOnGround == p.onGround
      q == [p EXCEPT !.position = body.position, !.velocity = body.velocity,
                     !.onGround = body.onGround]
  IN IF ~q.onGround /\ wasOnGround
     THEN [q EXCEPT !.lastGroundedTime = currentTime]
     ELSE q

\* The ground state part of update with jumpCount reset on every update that
\* finds the body on the ground.
TrackGroundResetWhileGrounded(p, body, currentTime) ==
  LET wasOnGround == p.onGround
      q == [p EXCEPT !.position = body.position, !.velocity = body.velocity,
                     !.onGround = body.onGround]
      landed == IF q.onGround THEN [q EXCEPT !.jumpCount = 0] ELSE q
  IN IF ~landed.onGround /\ wasOnGround
     THEN [landed EXCEPT !.lastGroundedTime = currentTime]
     ELSE landed

\* The ground state part of update: onGround is read from the body, a landing
\* resets jumpCount, leaving the ground is timed.
TrackGround(p, body, currentTime) ==
  LET wasOnGround == p.onGround
      q == [p EXCEPT !.position = body.position, !.velocity = body.velocity,
                     !.onGround = body.onGround]
      landed == IF q.onGround /\ ~wasOnGround THEN [q EXCEPT !.jumpCount = 0] ELSE q
  IN IF ~landed.onGround /\ wasOnGround
     THEN [landed EXCEPT !.lastGroundedTime = currentTime]
     ELSE landed

\* The jump part of update with the request left pending after a jump.
BufferedJumpKeepRequest(p, body, currentTime) ==
  IF ~p.jumpRequested THEN [pl |-> p, body |-> body, ret |-> FALSE]
  ELSE IF currentTime - p.jumpBufferTime < jumpBufferWindow
  THEN ProcessJump(p, body, currentTime)
  ELSE [pl |-> [p EXCEPT !.jumpRequested = FALSE], body |-> body, ret |-> FALSE]

\* The jump part of update with a request that never expires.
BufferedJumpNoExpiry(p, body, currentTime) ==
  IF ~p.jumpRequested THEN [pl |-> p, body |-> body, ret |-> FALSE]
  ELSE With(ProcessJump(p, body, currentTime), LAMBDA r :
         IF r.ret THEN [r EXCEPT !.pl.jumpRequested = FALSE] ELSE r)

\* The jump part of update: a pending request is tried inside the buffer
\* window and dropped after it.
BufferedJump(p, body, currentTime) ==
  IF ~p.jumpRequested THEN [pl |-> p, body |-> body, ret |-> FALSE]
  ELSE IF currentTime - p.jumpBufferTime < jumpBufferWindow
  THEN With(ProcessJump(p, body, currentTime), LAMBDA r :
         IF r.ret THEN [r EXCEPT !.pl.jumpRequested = FALSE] ELSE r)
  ELSE [pl |-> [p EXCEPT !.jumpRequested = FALSE], body |-> body, ret |-> FALSE]

\* Player.update(deltaTime) at time currentTime: the player, its body and
\* whether a jump was made.
PlayerUpdateResult(p, body, deltaTime, currentTime) ==
  IF p.isDead THEN [pl |-> p, body |-> body, ret |-> FALSE, boost |-> FALSE]
  ELSE With(BufferedJump(TrackGround(p, body, currentTime), body, currentTime),
            LAMBDA j :
       With(MovementUpdate(j.pl, j.body, deltaTime, currentTime), LAMBDA r :
         [pl |-> r.pl, body |-> r.body, ret |-> j.ret,
          boost |-> j.pl.isJumping /\ ~r.pl.isJumping]))

\* The record of the jumps after an update that returned r.
JumpLogged(log, p, body, currentTime, r) ==
  IF r.ret
  THEN With(TrackGround(p, body, currentTime), LAMBDA q :
         [first |-> q.onGround \/ currentTime - q.lastGroundedTime < coyoteTime,
          grounded |-> q.onGround,
          input |-> p.moveInput # Zero3,
          boosts |-> IF r.boost THEN 1 ELSE 0])
  ELSE IF r.boost THEN [log EXCEPT !.boosts = Min(@ + 1, 2)]
  ELSE log

\* takeDamage(amount) without the invulnerability after a damage.
TakeDamageNoInvulnerability(p, amount, currentTime) ==
  IF p.isDead THEN p
  ELSE LET hurt == [p EXCEPT !.health = @ - amount, !.lastDamageTime = currentTime]
       IN IF hurt.health <= 0
          THEN [hurt EXCEPT !.health = 0, !.isDead = TRUE, !.moveInput = Zero3,
                            !.respawnTimer = currentTime + respawnDelay]
          ELSE hurt

\* heal(amount) without the limit of maxHealth.
HealNoLimit(p, amount) ==
  IF p.isDead THEN p ELSE [p EXCEPT !.health = @ + amount]

\* heal(amount)
HealResult(p, amount) ==
  IF p.isDead THEN p ELSE [p EXCEPT !.health = Min(@ + amount, p.maxHealth)]

\* takeDamage(amount) at time currentTime, with die() when the health is gone.
TakeDamageResult(p, amount, currentTime) ==
  IF currentTime - p.lastDamageTime < invulnerabilityDuration THEN p
  ELSE IF p.isDead THEN p
  ELSE LET hurt == [p EXCEPT !.health = @ - amount, !.lastDamageTime = currentTime]
       IN IF hurt.health <= 0
          THEN [hurt EXCEPT !.health = 0, !.isDead = TRUE, !.moveInput = Zero3,
                            !.respawnTimer = currentTime + respawnDelay]
          ELSE hurt

worldVars == <<bodies, staticBodies, player, simVars>>

\* Time passes.
Tick ==
  /\ now + ClockStep <= MaxClock
  /\ now' = now + ClockStep
  /\ lastCall' = Call("tick", Null, Null)
  /\ UNCHANGED <<zombie, obj, pl, jumpLog, worldVars>>

\* The Space key goes down.
KeyDownSpace ==
  /\ pl' = [pl EXCEPT !.jumpRequested = TRUE, !.jumpBufferTime = now]
  /\ lastCall' = Call("keydown", "Space", Null)
  /\ UNCHANGED <<zombie, obj, now, jumpLog, worldVars>>

\* The W key goes down (pressed) or up.
KeyW(pressed) ==
  /\ pl' = [pl EXCEPT !.moveInput[3] = IF pressed THEN 0 - 1 ELSE 0]
  /\ pl' # pl
  /\ lastCall' = Call(IF pressed THEN "keydown" ELSE "keyup", "KeyW", Null)
  /\ UNCHANGED <<zombie, obj, now, jumpLog, worldVars>>

\* The fixed steps of the physics world since the last look at the body leave
\* its onGround flag true or false.
PhysicsGround(g) ==
  /\ player # Null
  /\ obj[player].onGround # g
  /\ obj' = [obj EXCEPT ![player].onGround = g]
  /\ lastCall' = Call("fixedUpdate", Null, Null)
  /\ UNCHANGED <<zombie, pl, now, jumpLog, worldVars>>

TakeDamage(amount) ==
  /\ pl' = TakeDamageResult(pl, amount, now)
  /\ lastCall' = Call("takeDamage", amount, Null)
  /\ UNCHANGED <<zombie, obj, now, jumpLog, worldVars>>

PlayerUpdate(deltaTime) ==
  /\ player # Null
  /\ \E r \in {PlayerUpdateResult(pl, obj[player], deltaTime, now)} :
       /\ pl' = r.pl
       /\ obj' = [obj EXCEPT ![player] = r.body]
       /\ lastCall' = Call("Player.update",
                          [deltaTime |-> deltaTime,
                           landed |-> ~pl.isDead /\ ~pl.onGround
                                      /\ obj[player].onGround,
                           requested |-> pl.jumpRequested,
                           jumpCount |-> pl.jumpCount,
                           boost |-> r.boost],
                          r.ret)
       /\ jumpLog' = JumpLogged(jumpLog, pl, obj[player], now, r)
  /\ UNCHANGED <<zombie, now, worldVars>>

\* The player right after its construction, its body in the world.
InitPlayer ==
  /\ bodies = <<1>>
  /\ staticBodies = <<>>
  /\ obj = [o \in Objs |-> IF o = Plain THEN PlainObject
                           ELSE NewBody(FALSE, TRUE, 3600, 0)]
  /\ player = 1
  /\ accumulator = 0
  /\ steps = 0
  /\ elapsed = 0
  /\ simTime = 0
  /\ events = <<>>
  /\ lastCall = Call("new", Null, Null)
  /\ pl = NewPlayer
  /\ now = StartClock
  /\ jumpLog = NoJump
  /\ zombie = NewZombie

NextPlayer ==
  \/ Tick
  \/ KeyDownSpace
  \/ \E pressed \in BOOLEAN : KeyW(pressed)
  \/ \E g \in BOOLEAN : PhysicsGround(g)
  \/ TakeDamage(100)
  \/ PlayerUpdate(ClockStep)

SpecPlayer == InitPlayer /\ [][NextPlayer]_vars

\* ------------------------------------- the player with its respawn timer
\* respawn(): the player and its body.
RespawnResult(p, body) ==
  [pl |-> [p EXCEPT !.health = p.maxHealth, !.isDead = FALSE,
                    !.position = <<0, 3600, 0>>, !.respawnTimer = Null],
   body |-> [body EXCEPT !.position = <<0, 3600, 0>>, !.velocity = Zero3]]

\* Nothing happens until the timer set by die() is due.  A player that dies
\* again after its respawn stays dead within the bounds.
AwaitRespawn ==
  /\ pl.respawnTimer # Null
  /\ now < pl.respawnTimer
  /\ pl.respawnTimer <= MaxClock + respawnDelay
  /\ now' = pl.respawnTimer
  /\ lastCall' = Call("tick", Null, Null)
  /\ UNCHANGED <<zombie, obj, pl, jumpLog, worldVars>>

\* The timer set by die() fires.
Respawn ==
  /\ player # Null
  /\ pl.respawnTimer # Null
  /\ now >= pl.respawnTimer
  /\ \E r \in {RespawnResult(pl, obj[player])} :
       /\ pl' = r.pl
       /\ obj' = [obj EXCEPT ![player] = r.body]
  /\ lastCall' = Call("respawn", Null, Null)
  /\ UNCHANGED <<zombie, now, jumpLog, worldVars>>

\* The life of a player that is given no move input.
NextLife ==
  \/ Tick
  \/ KeyDownSpace
  \/ \E g \in BOOLEAN : PhysicsGround(g)
  \/ TakeDamage(100)
  \/ PlayerUpdate(ClockStep)
  \/ AwaitRespawn
  \/ Respawn

SpecLife == InitPlayer /\ [][NextLife]_vars

\* ------------------------------------- the player's health
\* bound of the clock of the health specification, in milliseconds
MaxHealthClock == 1600

\* The amounts of takeDamage and heal.
DamageAmounts == {0, 30, 100}
HealAmounts == {0, 20, 100}

\* Time passes.
LateTick ==
  /\ now + ClockStep <= MaxHealthClock
  /\ now' = now + ClockStep
  /\ lastCall' = Call("tick", Null, Null)
  /\ UNCHANGED <<zombie, obj, pl, jumpLog, worldVars>>

\* Nothing happens until the timer set by die() is due.
AwaitLateRespawn ==
  /\ pl.respawnTimer # Null
  /\ now < pl.respawnTimer
  /\ pl.respawnTimer <= MaxHealthClock + respawnDelay
  /\ now' = pl.respawnTimer
  /\ lastCall' = Call("tick", Null, Null)
  /\ UNCHANGED <<zombie, obj, pl, jumpLog, worldVars>>

Heal(amount) ==
  /\ pl' = HealResult(pl, amount)
  /\ lastCall' = Call("heal", amount, Null)
  /\ UNCHANGED <<zombie, obj, now, jumpLog, worldVars>>

NextHealth ==
  \/ LateTick
  \/ \E amount \in DamageAmounts : TakeDamage(amount)
  \/ \E amount \in HealAmounts : Heal(amount)
  \/ PlayerUpdate(ClockStep)
  \/ AwaitLateRespawn
  \/ Respawn

SpecHealth == InitPlayer /\ [][NextHealth]_vars

\* ------------------------------------------------------- the Zombie
\* distances in hundredths of a world unit, times in milliseconds
attackRange == 180
detectionRange == 1500
attackCooldown == 1200
deathDelay == 2000
removalDelay == 3000
zombieWalk == 200
zombieRun == 450

\* bounds: the two frame times, the end of the clock, and the damage a
\* zombie can take below a health of 0
BriefFrame == 400
SlowFrame == 500
MaxZombieClock == 5000
MaxOverkill == 100

\* The distances between the zombie and the player an update can find: in
\* attack range, just outside it, in detection range, out of sight.
Distances == {100, 200, 1000, 3000}

\* The amounts of Zombie.takeDamage.
HitAmounts == {50, 100}

\* changeState(newState) at time currentTime
ChangeState(z, newState, currentTime) ==
  IF newState = z.state THEN z
  ELSE [z EXCEPT !.state = newState,
                 !.timeSinceLastStateChange = 0,
                 !.velocity = IF newState = "death" THEN 0 ELSE @,
                 !.deathTime = IF newState = "death" THEN currentTime ELSE @]

\* processIdleState
ProcessIdleState(z, distance, currentTime) ==
  IF distance < detectionRange THEN ChangeState(z, "chase", currentTime) ELSE z

\* processChaseState(deltaTime)
ProcessChaseState(z, deltaTime, distance, currentTime) ==
  IF 2 * distance > 3 * detectionRange THEN ChangeState(z, "idle", currentTime)
  ELSE IF distance < attackRange THEN ChangeState(z, "attack", currentTime)
  ELSE LET speed == IF 2 * distance < detectionRange THEN zombieRun ELSE zombieWalk
       IN [z EXCEPT !.velocity = Quot(speed * 60 * deltaTime, 1000)]

\* processAttackState: the zombie, the player and whether an attack was made.
ProcessAttackState(z, p, distance, currentTime) ==
  IF 10 * distance > 12 * attackRange
  THEN [zombie |-> ChangeState(z, "chase", currentTime), pl |-> p, ret |-> FALSE]
  ELSE IF currentTime - z.lastAttackTime > attackCooldown
  THEN [zombie |-> [z EXCEPT !.lastAttackTime = currentTime],
        pl |-> TakeDamageResult(p, z.damage, currentTime),
        ret |-> TRUE]
  ELSE [zombie |-> z, pl |-> p, ret |-> FALSE]

\* processDeathState that sets the removal timer in every update after the
\* delay.
ProcessDeathStateEveryUpdate(z, currentTime) ==
  IF z.timeSinceLastStateChange > deathDelay
  THEN [z EXCEPT !.isAlive = FALSE,
                 !.removalTimer = currentTime + removalDelay,
                 !.removals = @ + 1]
  ELSE z

\* processDeathState at time currentTime
ProcessDeathState(z, currentTime) ==
  IF z.timeSinceLastStateChange > deathDelay /\ z.isAlive
  THEN [z EXCEPT !.isAlive = FALSE,
                 !.removalTimer = currentTime + removalDelay,
                 !.removals = @ + 1]
  ELSE z

\* Zombie.update(deltaTime) of an enabled zombie with its model loaded, at
\* time currentTime, the player at the given distance.
ZombieUpdateResult(z, p, deltaTime, distance, currentTime) ==
  LET timed == [z EXCEPT !.timeSinceLastStateChange = @ + deltaTime]
      acted == CASE timed.state = "idle" ->
                      [zombie |-> ProcessIdleState(timed, distance, currentTime),
                       pl |-> p, ret |-> FALSE]
                 [] timed.state = "chase" ->
                      [zombie |-> ProcessChaseState(timed, deltaTime, distance,
                                                    currentTime),
                       pl |-> p, ret |-> FALSE]
                 [] timed.state = "attack" ->
                      ProcessAttackState(timed, p, distance, currentTime)
                 [] OTHER ->
                      [zombie |-> ProcessDeathState(timed, currentTime),
                       pl |-> p, ret |-> FALSE]
  IN IF acted.zombie.health <= 0 /\ acted.zombie.state # "death"
     THEN [acted EXCEPT !.zombie = ChangeState(@, "death", currentTime)]
     ELSE acted

\* Zombie.takeDamage(amount) at time currentTime
ZombieTakeDamageResult(z, amount, currentTime) ==
  IF ~z.isAlive THEN z
  ELSE LET hurt == [z EXCEPT !.health = @ - amount]
       IN IF hurt.health <= 0 THEN ChangeState(hurt, "death", currentTime)
          ELSE hurt

\* A frame begins after the frame before it has updated the zombie.
BeginFrame(deltaTime) ==
  /\ zombie.updated \/ zombie.removed
  /\ now + deltaTime <= MaxZombieClock
  /\ now' = now + deltaTime
  /\ zombie' = [zombie EXCEPT !.frameDelta = deltaTime, !.updated = FALSE]
  /\ lastCall' = Call("frame", deltaTime, Null)
  /\ UNCHANGED <<obj, pl, jumpLog, worldVars>>

\* The entity manager updates the zombie, once in a frame.
ZombieUpdate(distance) ==
  /\ ~zombie.updated
  /\ ~zombie.removed
  /\ \E r \in {ZombieUpdateResult(zombie, pl, zombie.frameDelta, distance, now)} :
       /\ zombie' = [r.zombie EXCEPT !.updated = TRUE]
       /\ pl' = r.pl
       /\ lastCall' = Call("Zombie.update", distance, r.ret)
  /\ UNCHANGED <<obj, now, jumpLog, worldVars>>

\* A hit of the player's weapon, before or after the zombie's update of the
\* frame.
ZombieTakeDamage(amount) ==
  /\ ~zombie.removed
  /\ zombie.health + MaxOverkill > 0
  /\ zombie' = ZombieTakeDamageResult(zombie, amount, now)
  /\ lastCall' = Call("Zombie.takeDamage", amount, Null)
  /\ UNCHANGED <<obj, pl, now, jumpLog, worldVars>>

\* Nothing happens until the timer set by processDeathState is due.
AwaitRemoval ==
  /\ zombie.removalTimer # Null
  /\ ~zombie.removed
  /\ zombie.updated
  /\ now < zombie.removalTimer
  /\ now' = zombie.removalTimer
  /\ lastCall' = Call("tick", Null, Null)
  /\ UNCHANGED <<zombie, obj, pl, jumpLog, worldVars>>

\* The timer set by processDeathState fires: removeEntity.
RemoveZombie ==
  /\ zombie.removalTimer # Null
  /\ ~zombie.removed
  /\ now >= zombie.removalTimer
  /\ zombie' = [zombie EXCEPT !.removed = TRUE]
  /\ lastCall' = Call("removeEntity", Null, Null)
  /\ UNCHANGED <<obj, pl, now, jumpLog, worldVars>>

NextZombie ==
  \/ \E deltaTime \in {BriefFrame, SlowFrame} : BeginFrame(deltaTime)
  \/ \E distance \in Distances : ZombieUpdate(distance)
  \/ \E amount \in HitAmounts : ZombieTakeDamage(amount)
  \/ AwaitRemoval
  \/ RemoveZombie

SpecZombie == InitPlayer /\ [][NextZombie]_vars

\* ------------------------------------------- the Movement controller
\* bounds of Movement.update on its own: the two frame times and the end of
\* the clock, in milliseconds
ShortFrame == 16
LongFrame == 50
MaxMoveClock == 1210

\* The D key goes down (pressed) or up.
KeyD(pressed) ==
  /\ pl' = [pl EXCEPT !.moveInput[1] = IF pressed THEN 1 ELSE 0]
  /\ pl' # pl
  /\ lastCall' = Call(IF pressed THEN "keydown" ELSE "keyup", "KeyD", Null)
  /\ UNCHANGED <<zombie, obj, now, jumpLog, worldVars>>

\* The move direction of an update under the current input.
DirectionNow == CalculateMoveDirection(InputOf(pl.moveInput))

\* An update now would find a direction change.
QualifyingChange ==
  /\ pl.moveInput # Zero3
  /\ Dot(pl.movement.lastDirection, pl.movement.lastDirection) # 0
  /\ Dot(pl.movement.lastDirection, DirectionNow) < directionChangeThreshold

\* Movement.update(deltaTime), once per frame: the clock has advanced by the
\* frame time at the next update.
MoveUpdate(deltaTime) ==
  /\ player # Null
  /\ now + deltaTime <= MaxMoveClock
  /\ now' = now + deltaTime
  /\ \E r \in {MovementUpdate(pl, obj[player], deltaTime, now)} :
       /\ pl' = r.pl
       /\ obj' = [obj EXCEPT ![player] = r.body]
       /\ lastCall' = Call("Movement.update",
                          [deltaTime |-> deltaTime,
                           hasInput |-> pl.moveInput # Zero3,
                           before |-> obj[player].velocity,
                           changed |-> QualifyingChange,
                           boost |-> pl.isJumping /\ ~r.pl.isJumping],
                          Null)
  /\ UNCHANGED <<zombie, jumpLog, worldVars>>

\* The velocities the body is given by jumps, falls and collisions.
MoveVelocities ==
  {<<x, y, z>> : x \in {0, 600}, y \in {0, jumpForce}, z \in {0, 0 - 180, 0 - 600}}

\* A player on the ground or in the air, walking or sprinting, that has made
\* no jump, or a first jump with isJumping set.
InitMove ==
  /\ bodies = <<1>>
  /\ staticBodies = <<>>
  /\ \E v \in MoveVelocities :
       obj = [o \in Objs |-> IF o = Plain THEN PlainObject
                             ELSE [NewBody(FALSE, TRUE, 3600, 0) EXCEPT !.velocity = v]]
  /\ player = 1
  /\ accumulator = 0
  /\ steps = 0
  /\ elapsed = 0
  /\ simTime = 0
  /\ events = <<>>
  /\ lastCall = Call("new", Null, Null)
  /\ \E jumping, g, sprinting \in BOOLEAN :
       pl = [NewPlayer EXCEPT !.isJumping = jumping,
                              !.jumpCount = IF jumping THEN 1 ELSE 0,
                              !.onGround = g,
                              !.isSprinting = sprinting]
  /\ now = StartClock
  /\ jumpLog = NoJump
  /\ zombie = NewZombie

NextMove ==
  \/ \E pressed \in BOOLEAN : KeyW(pressed)
  \/ \E pressed \in BOOLEAN : KeyD(pressed)
  \/ MoveUpdate(LongFrame)

SpecMove == InitMove /\ [][NextMove]_vars

\* --------------------------------------- the stop force on its own
\* Movement.update(deltaTime) of a player without move input; the clock is
\* not read.
StopUpdate(deltaTime) ==
  /\ player # Null
  /\ pl.moveInput = Zero3
  /\ \E r \in {MovementUpdate(pl, obj[player], deltaTime, now)} :
       /\ pl' = r.pl
       /\ obj' = [obj EXCEPT ![player] = r.body]
       /\ lastCall' = Call("Movement.update",
                          [deltaTime |-> deltaTime,
                           hasInput |-> FALSE,
                           before |-> obj[player].velocity,
                           changed |-> FALSE,
                           boost |-> FALSE],
                          Null)
  /\ UNCHANGED <<zombie, now, jumpLog, worldVars>>

\* The velocities the body is left with when the input stops.
StopVelocities ==
  {<<x, y, z>> : x \in {0, 100, 0 - 250}, y \in {0, jumpForce},
                 z \in {0, 0 - 180, 300, 600}}

\* A player on the ground or in the air whose keys have been released.
InitStop ==
  /\ bodies = <<1>>
  /\ staticBodies = <<>>
  /\ \E v \in StopVelocities :
       obj = [o \in Objs |-> IF o = Plain THEN PlainObject
                             ELSE [NewBody(FALSE, TRUE, 3600, 0) EXCEPT !.velocity = v]]
  /\ player = 1
  /\ accumulator = 0
  /\ steps = 0
  /\ elapsed = 0
  /\ simTime = 0
  /\ events = <<>>
  /\ lastCall = Call("new", Null, Null)
  /\ \E g \in BOOLEAN : pl = [NewPlayer EXCEPT !.onGround = g]
  /\ now = StartClock
  /\ jumpLog = NoJump
  /\ zombie = NewZombie

NextStop == \E deltaTime \in {ShortFrame, LongFrame} : StopUpdate(deltaTime)

\* Updates keep coming: the engine calls update on every frame.
SpecStop == InitStop /\ [][NextStop]_vars /\ WF_vars(NextStop)

\* ------------------------------------------------- claims C1, C2
\* C1: after every update call the accumulator is at least 0 and less than
\* the fixed time step.
C1_AccumulatorInRange == 0 <= accumulator /\ accumulator < fixedTimeStep

\* C1 witness: updates that ran fixed steps and left a remainder.
C1_Witness == lastCall.op = "update" /\ steps >= 2 /\ accumulator > 0

\* C2: the number of fixedUpdate runs is the whole number of fixed time steps
\* in the sum of the deltaTimes, however the time was split over the calls,
\* and every run was given exactly the fixed time step.
C2_StepsMatchElapsed ==
  /\ steps = elapsed \div fixedTimeStep
  /\ simTime = steps * fixedTimeStep

\* C2 witness: three fixed steps were run and part of a step is left over.
C2_Witness ==
  /\ lastCall.op = "update"
  /\ steps = 3
  /\ simTime = 3 * fixedTimeStep
  /\ elapsed > simTime

\* ------------------------------------------------- claims C7 .. C10
Detection == {"ground", "test", "resolve"}

\* C7: within one fixedUpdate every dynamic body has gravity applied and its
\* forces integrated before any ground check or pairwise test runs, and the
\* position of every dynamic body is integrated only after all detection and
\* resolution of the step.
C7_PhaseOrder ==
  /\ \A i, k \in 1..Len(events) :
       /\ (events[i].kind = "force" /\ events[k].kind \in Detection) => i < k
       /\ (events[i].kind \in Detection /\ events[k].kind = "move") => i < k
       /\ (events[i].kind = "force" /\ events[k].kind = "move") => i < k
  /\ steps > 0 =>
       \A b \in Range(bodies) :
         /\ \E i \in 1..Len(events) : events[i] = Ev("force", b, Null)
         /\ \E i \in 1..Len(events) : events[i] = Ev("ground", b, Null)
         /\ \E i \in 1..Len(events) : events[i] = Ev("move", b, Null)

\* C7 witness: a fixed step over two dynamic bodies that resolved a contact.
C7_Witness ==
  /\ steps > 0
  /\ Len(bodies) >= 2
  /\ \E i \in 1..Len(events) : events[i].kind = "resolve"

\* No contact of body b was resolved in the step logged in ev.
Untouched(b, ev) ==
  \A i \in 1..Len(ev) : ev[i].kind = "resolve" => (ev[i].a # b /\ ev[i].b # b)

InGroundRegion(body) ==
  body.position[2] < groundThreshold /\ body.velocity[2] <= groundTolerance

\* C8 as claimed: a dynamic body that starts a fixed step below the ground
\* threshold with a vertical velocity within the tolerance ends the step on
\* the ground with a vertical velocity of at least 0, whatever other bodies
\* the world holds.
C8_GroundedAfterStep ==
  [][steps' = steps + 1 =>
       \A b \in Range(bodies) :
         InGroundRegion(obj[b]) =>
           (obj'[b].onGround /\ obj'[b].velocity[2] >= 0)]_vars

\* C8 amended: the same for a body of which no contact with another body is
\* resolved during the step.
C8_GroundedAfterStepUntouched ==
  [][steps' = steps + 1 =>
       \A b \in Range(bodies) :
         (InGroundRegion(obj[b]) /\ Untouched(b, events')) =>
           (obj'[b].onGround /\ obj'[b].velocity[2] >= 0)]_vars

\* C8 witness: after the first step of a world of two dynamic bodies, a body
\* without gravity, untouched by the other one, stands on the ground.
C8_Witness ==
  /\ steps = 1
  /\ Len(bodies) >= 2
  /\ \E b \in Range(bodies) :
       /\ ~obj[b].usesGravity
       /\ obj[b].onGround
       /\ obj[b].velocity[2] = 0
       /\ Untouched(b, events)

\* C9 as claimed: right after the ground check of a body, onGround is true
\* when position.y was below the threshold and velocity.y within the
\* tolerance, and false in every other case.
C9_GroundFlagDecided ==
  [][lastCall'.op = "checkWorldBounds" =>
       LET b == lastCall'.arg IN
         obj'[b].onGround = InGroundRegion(obj[b])]_vars

\* C9 amended: onGround is true when position.y was below the threshold and
\* velocity.y within the tolerance, false when position.y was not below the
\* threshold, and left as it was when position.y was below the threshold and
\* velocity.y above the tolerance.
C9_GroundFlagUpdated ==
  [][lastCall'.op = "checkWorldBounds" =>
       LET b == lastCall'.arg IN
         obj'[b].onGround =
           IF obj[b].position[2] >= groundThreshold THEN FALSE
           ELSE IF obj[b].velocity[2] <= groundTolerance THEN TRUE
           ELSE obj[b].onGround]_vars

\* C9 witness: a checked body that rises out of the ground region and still
\* counts as on the ground.
C9_Witness ==
  /\ lastCall.op = "checkWorldBounds"
  /\ \E b \in Range(bodies) :
       /\ obj[b].position[2] < groundThreshold
       /\ obj[b].velocity[2] > groundTolerance
       /\ obj[b].onGround

AtRestOnGround(body) ==
  /\ body.usesGravity
  /\ 0 <= body.position[2]
  /\ body.position[2] < groundThreshold
  /\ body.velocity = Zero3

\* C10: a gravity-affected dynamic body at rest in the ground region, of which
\* no contact with another body is resolved, is at rest in the same place
\* after the fixed steps of an update: onGround is true, velocity.y is not
\* negative, the position is unchanged and the velocity is still zero.
C10_RestIsKept ==
  [][\A b \in Range(bodies) :
       ( /\ AtRestOnGround(obj[b])
         /\ \/ steps' = steps + 1 /\ Untouched(b, events')
            \/ steps' > steps /\ bodies = <<b>> /\ staticBodies = <<>> )
       => /\ obj'[b].onGround
          /\ obj'[b].velocity[2] >= 0
          /\ obj'[b].position = obj[b].position
          /\ obj'[b].velocity = Zero3]_vars

\* C10 witness: the only body of a world, at rest on the ground after a
\* second fixed step.
C10_Witness ==
  /\ steps >= 2
  /\ staticBodies = <<>>
  /\ \E b \in Bodies :
       /\ bodies = <<b>>
       /\ AtRestOnGround(obj[b])
       /\ obj[b].onGround


\* ------------------------------------------------- claims C3 .. C6
\* C3: after any sequence of addBody, removeBody and clear calls, no body is
\* held by both the dynamic and the static collection, also when a body is
\* added more than once or its isStatic flag is changed between the calls.
C3_CollectionsDisjoint == Range(bodies) \cap Range(staticBodies) = {}

\* C4: after removeBody(b) returns, b is in neither collection; when b was in
\* neither collection before the call, the call changes nothing.
C4_RemoveBodyRemoves ==
  [][lastCall'.op = "removeBody" =>
       LET b == lastCall'.arg IN
         /\ b \notin Range(bodies') \cup Range(staticBodies')
         /\ (~InWorld(b) => UNCHANGED <<bodies, staticBodies>>)]_vars

\* C5: addBody of an object that is no PhysicsBody returns null and leaves
\* both collections as they were; addBody of a PhysicsBody returns the body
\* and appends it to staticBodies when isStatic is set, to bodies otherwise.
C5_AddBodyContract ==
  [][lastCall'.op = "addBody" =>
       LET b == lastCall'.arg IN
         IF ~obj[b].isBody
         THEN /\ lastCall'.ret = Null
              /\ UNCHANGED <<zombie, bodies, staticBodies>>
         ELSE /\ lastCall'.ret = b
              /\ IF obj[b].isStatic
                 THEN /\ staticBodies' = Append(staticBodies, b)
                      /\ bodies' = bodies
                 ELSE /\ bodies' = Append(bodies, b)
                      /\ staticBodies' = staticBodies]_vars

\* C5 witness: a rejected addBody of a plain object, in a world that already
\* took a dynamic and a static body.
C5_Witness ==
  /\ lastCall = Call("addBody", Plain, Null)
  /\ bodies # <<>>
  /\ staticBodies # <<>>

\* C6: clear only removes: afterwards the world holds the player's body if and
\* only if it held it before, and holds no other body.
C6_ClearOnlyRemoves ==
  [][lastCall'.op = "clear" =>
       LET after == Range(bodies') \cup Range(staticBodies') IN
         /\ \A b \in after : b = player /\ InWorld(b)
         /\ (player # Null /\ InWorld(player)) => player \in after]_vars

\* ------------------------------------------------- claim C11
\* The body crosses the ground threshold in the step from obj to obj'.
Crosses(b) ==
  /\ obj[b].position[2] >= groundThreshold
  /\ obj'[b].position[2] < groundThreshold

\* C11 as claimed: a falling body is on the ground, with a vertical velocity
\* of 0, at the end of the very fixed step in which its position.y first
\* becomes lower than the ground threshold.
C11_GroundedOnCrossing ==
  [][steps' = steps + 1 =>
       \A b \in Range(bodies) :
         (obj[b].velocity[2] <= groundTolerance /\ Crosses(b)) =>
           (obj'[b].onGround /\ obj'[b].velocity[2] = 0)]_vars

\* C11 amended: the ground check of a step runs before the positions are
\* integrated.  A body of which no contact is resolved ends the step in which
\* it crosses the threshold still falling and with onGround false; the step
\* that starts with the falling body below the threshold ends with onGround
\* true and a vertical velocity of 0.
C11_GroundedOneStepLater ==
  [][steps' = steps + 1 =>
       \A b \in Range(bodies) :
         Untouched(b, events') =>
           /\ Crosses(b) => (~obj'[b].onGround /\ obj'[b].velocity[2] < 0)
           /\ ( /\ obj[b].position[2] < groundThreshold
                /\ obj[b].velocity[2] < 0 )
              => (obj'[b].onGround /\ obj'[b].velocity[2] = 0)]_vars

\* C11 witness: the only body of a world fell from the threshold into the
\* ground region in one step and was put on the ground by a later one.
C11_Witness ==
  /\ steps >= 2
  /\ staticBodies = <<>>
  /\ \E b \in Bodies :
       /\ bodies = <<b>>
       /\ obj[b].position[2] = groundThreshold + gravity[2]
       /\ obj[b].onGround
       /\ obj[b].velocity[2] = 0

\* ------------------------------------------------- claims C12 .. C18
\* The contact normal resolveCollision(A, B) works with: the normal of the
\* collision info, or the direction from B to A in the fallback.
ContactNormal(A, B) ==
  With(CollisionInfo(A, B), LAMBDA info :
    IF info.hit THEN info.normal
    ELSE Normalize(VSub(A.position, B.position)))

Separating(A, B) == VelAlongNormal(A, B, ContactNormal(A, B)) > 0

\* C12: resolveCollision on a pair whose relative velocity along the contact
\* normal is > 0 changes nothing: velocity, position and onGround of both
\* bodies are as before, in the collider path and in the fallback.
C12_SeparatingUnchanged ==
  [][lastCall'.op = "resolveCollision" =>
       LET a == lastCall'.arg[1]
           b == lastCall'.arg[2]
       IN Separating(obj[a], obj[b]) => obj' = obj]_vars

\* C12 witness: resolveCollision was called on two overlapping dynamic bodies
\* that move apart, the first one below the second one; both are where they
\* were and as fast as they were.
C12_Witness ==
  /\ lastCall.op = "resolveCollision"
  /\ obj[1].invMass[1] > 0 /\ obj[2].invMass[1] > 0
  /\ obj[1].position = <<0, 0 - 900, 0>> /\ obj[1].velocity = <<0, 0 - 100, 0>>
  /\ obj[2].position = Zero3 /\ obj[2].velocity = <<0, 100, 0>>
  /\ CheckCollision(obj[1], obj[2])
  /\ Separating(obj[1], obj[2])

\* C13: a body of the static collection, its inverse mass 0, has the same
\* position and velocity after the fixed steps of an update as before:
\* neither gravity, the ground check, the impulse or the position correction
\* of a resolution, in either path, nor the position integration changes it.
C13_StaticUntouched ==
  [][steps' > steps =>
       \A b \in Range(staticBodies) :
         obj[b].invMass[1] = 0 =>
           /\ obj'[b].position = obj[b].position
           /\ obj'[b].velocity = obj[b].velocity]_vars

\* C13 witness: a fixed step resolved the contact of a falling body with a
\* static body through their colliders; the falling body was stopped and
\* pushed out of the static one.
C13_Witness ==
  /\ steps = 1
  /\ \E i \in 1..Len(events) :
       /\ events[i].kind = "resolve"
       /\ events[i].b \in Range(staticBodies)
       /\ obj[events[i].b].collider # Null
       /\ obj[events[i].a].collider # Null
       /\ obj[events[i].a].velocity[2] = 0
       /\ ~CheckCollision(obj[events[i].a], obj[events[i].b])

\* The component of v along the unit normal n (in hundredths), and 10000
\* times the rest of v.
Along(v, n) == Dot(v, n)
Tangential(v, n) == VSub(VScale(v, 10000), VScale(n, Dot(v, n)))

\* Two dynamic bodies of equal mass that approach each other along their
\* contact normal.
EqualMassApproach(A, B) ==
  /\ A.invMass[1] > 0
  /\ A.invMass = B.invMass
  /\ VelAlongNormal(A, B, ContactNormal(A, B)) < 0

\* C14: when two dynamic bodies of equal mass that approach each other along
\* the contact normal, both of restitution 1.0, are resolved, their velocity
\* components along the normal are exchanged and their tangential components
\* are as before.
C14_ElasticExchange ==
  [][lastCall'.op = "resolveCollision" =>
       LET a == lastCall'.arg[1]
           b == lastCall'.arg[2]
           n == ContactNormal(obj[a], obj[b])
       IN ( /\ EqualMassApproach(obj[a], obj[b])
            /\ obj[a].restitution = 100 /\ obj[b].restitution = 100 )
          => /\ Along(obj'[a].velocity, n) = Along(obj[b].velocity, n)
             /\ Along(obj'[b].velocity, n) = Along(obj[a].velocity, n)
             /\ Tangential(obj'[a].velocity, n) = Tangential(obj[a].velocity, n)
             /\ Tangential(obj'[b].velocity, n) = Tangential(obj[b].velocity, n)]_vars

\* C14 witness: two bodies of equal mass and restitution 1.0 with colliders
\* after their contact along an oblique normal was resolved: the first one,
\* which came down with a sideways velocity, has taken the normal component
\* of the resting second one and kept its tangential component.
C14_Witness ==
  /\ lastCall = Call("resolveCollision", <<1, 2>>, Null)
  /\ obj[1].collider # Null /\ obj[2].collider # Null
  /\ obj[1].restitution = 100 /\ obj[2].restitution = 100
  /\ obj[1].invMass = <<1, 1>> /\ obj[2].invMass = <<1, 1>>
  /\ Along(obj[1].velocity, <<60, 80, 0>>) = 0
  /\ obj[1].velocity = <<112, 0 - 84, 0>>
  /\ obj[2].velocity = <<0 - 12, 0 - 16, 0>>

\* C15: when two dynamic bodies of equal mass that approach each other along
\* the contact normal are resolved and the smaller of their restitutions is
\* 0.0, both have the same velocity component along the normal afterwards and
\* their tangential components are as before, in the collider path and in the
\* radius fallback.
C15_InelasticCommonVelocity ==
  [][lastCall'.op = "resolveCollision" =>
       LET a == lastCall'.arg[1]
           b == lastCall'.arg[2]
           n == ContactNormal(obj[a], obj[b])
       IN ( /\ EqualMassApproach(obj[a], obj[b])
            /\ Min(obj[a].restitution, obj[b].restitution) = 0 )
          => /\ Along(obj'[a].velocity, n) = Along(obj'[b].velocity, n)
             /\ Tangential(obj'[a].velocity, n) = Tangential(obj[a].velocity, n)
             /\ Tangential(obj'[b].velocity, n) = Tangential(obj[b].velocity, n)]_vars

\* The same for the pairs that are resolved through the collider path.
C15_InelasticColliderPath ==
  [][lastCall'.op = "resolveCollision" =>
       LET a == lastCall'.arg[1]
           b == lastCall'.arg[2]
           n == ContactNormal(obj[a], obj[b])
       IN ( /\ EqualMassApproach(obj[a], obj[b])
            /\ CollisionInfo(obj[a], obj[b]).hit
            /\ Min(obj[a].restitution, obj[b].restitution) = 0 )
          => /\ Along(obj'[a].velocity, n) = Along(obj'[b].velocity, n)
             /\ Tangential(obj'[a].velocity, n) = Tangential(obj[a].velocity, n)
             /\ Tangential(obj'[b].velocity, n) = Tangential(obj[b].velocity, n)]_vars

\* The penetration depth resolveCollision(A, B) works with: the depth of the
\* collision info, or the overlap of the two radii in the fallback.
ContactDepth(A, B) ==
  With(CollisionInfo(A, B), LAMBDA info :
    IF info.hit THEN info.depth
    ELSE Max(RadiusOr(A) + RadiusOr(B) - Length(VSub(A.position, B.position)), 0))

\* The full positional correction: A displaced by d * invMassA / invMassSum
\* along the normal, B by d * invMassB / invMassSum against it, and no
\* overlap left.
FullyCorrected(o, o2, a, b) ==
  LET n == ContactNormal(o[a], o[b])
      d == ContactDepth(o[a], o[b])
      invMassSum == InvMassSum(o[a], o[b])
  IN /\ o2[a].position =
          VAdd(o[a].position,
               VQuot(VScale(n, d * InvMassA(o[a], o[b])), 100 * invMassSum))
     /\ o2[b].position =
          VSub(o[b].position,
               VQuot(VScale(n, d * InvMassB(o[a], o[b])), 100 * invMassSum))
     /\ ~CheckCollision(o2[a], o2[b])

\* A pair resolveCollision does resolve, with a penetration depth > 0.
Penetrating(A, B) ==
  /\ ~Separating(A, B)
  /\ InvMassSum(A, B) > 0
  /\ ContactDepth(A, B) > 0

\* C16: when a non-separating pair with penetration depth d > 0 is resolved,
\* each body is displaced by its inverse-mass share of the full depth d along
\* the normal and the two bodies no longer overlap, in the collider path and
\* in the radius fallback.
C16_FullCorrection ==
  [][lastCall'.op = "resolveCollision" =>
       LET a == lastCall'.arg[1]
           b == lastCall'.arg[2]
       IN Penetrating(obj[a], obj[b]) => FullyCorrected(obj, obj', a, b)]_vars

\* The same for the pairs that are resolved through the collider path.
C16_FullCorrectionColliderPath ==
  [][lastCall'.op = "resolveCollision" =>
       LET a == lastCall'.arg[1]
           b == lastCall'.arg[2]
       IN (Penetrating(obj[a], obj[b]) /\ CollisionInfo(obj[a], obj[b]).hit)
          => FullyCorrected(obj, obj', a, b)]_vars

\* The collision info that carries the contact normal and the penetration
\* depth the fallback works with.
FallbackContact(A, B) ==
  With(VSub(A.position, B.position), LAMBDA d :
    [hit |-> TRUE, normal |-> Normalize(d),
     depth |-> Max(RadiusOr(A) + RadiusOr(B) - Length(d), 0)])

\* Velocity and position of every body of the heap.
Motion(o) == [x \in DOMAIN o |-> <<o[x].velocity, o[x].position>>]

\* C17: the radius fallback is equivalent to the collider path: for the same
\* two bodies, the same contact normal and the same penetration depth, the
\* two paths leave the same velocities and the same positions.
C17_PathsEquivalent ==
  [][lastCall'.op = "resolveCollision" =>
       LET a == lastCall'.arg[1]
           b == lastCall'.arg[2]
       IN Motion(ResolveFallback(obj, a, b, player))
            = Motion(ResolveCollider(obj, a, b, FallbackContact(obj[a], obj[b]),
                                     player))]_vars

\* The two paths agree on a pair that is not resolved: separating bodies, or
\* no inverse mass.
C17_PathsAgreeWithoutOverlap ==
  [][lastCall'.op = "resolveCollision" =>
       LET a == lastCall'.arg[1]
           b == lastCall'.arg[2]
       IN ( \/ Separating(obj[a], obj[b])
            \/ InvMassSum(obj[a], obj[b]) = 0 )
          => Motion(ResolveFallback(obj, a, b, player))
               = Motion(ResolveCollider(obj, a, b,
                                        FallbackContact(obj[a], obj[b]), player))]_vars

\* C18: resolveCollision changes onGround of no body but bodyA, and of bodyA
\* only to true, only when bodyA is the player's body and the y component of
\* the contact normal is > 0.7; it never sets onGround of bodyB or of a body
\* that is not the player's, and never sets onGround to false.
C18_GroundFlagOnlyPlayerA ==
  [][lastCall'.op = "resolveCollision" =>
       LET a == lastCall'.arg[1]
           b == lastCall'.arg[2]
       IN \A x \in Objs :
            obj'[x].onGround # obj[x].onGround =>
              /\ x = a
              /\ a = player
              /\ ContactNormal(obj[a], obj[b])[2] > 70
              /\ obj'[x].onGround]_vars

\* C18 witness: the player's body came down on a static body and was resolved
\* as bodyA, neither body on the ground before; the player's body is on the
\* ground now, the static one is not.
C18_Witness ==
  /\ lastCall = Call("resolveCollision", <<1, 2>>, Null)
  /\ player = 1
  /\ obj[1].position[2] > obj[2].position[2]
  /\ obj[1].position[1] = obj[2].position[1]
  /\ obj[1].onGround /\ ~obj[2].onGround
  /\ obj[2].invMass[1] = 0

\* ------------------------------------------------- claims C19, C20
\* C19: a Player.update that observes the landing (onGround of the player
\* false, onGround of its body true) with a jump request pending for less
\* than the buffer window (200 ms), at least the cooldown (100 ms) after the
\* last successful jump, performs a jump: the vertical velocity of the body
\* is jumpForce afterwards and the request is consumed.
C19_BufferedJumpOnLanding ==
  [][( /\ lastCall'.op = "Player.update"
       /\ ~pl.isDead
       /\ pl.jumpRequested
       /\ ~pl.onGround /\ obj[player].onGround
       /\ now - pl.jumpBufferTime < jumpBufferWindow
       /\ now - pl.lastJumpTime >= jumpCooldown )
     => /\ lastCall'.ret
        /\ obj'[player].velocity[2] = jumpForce
        /\ ~pl'.jumpRequested
        /\ pl'.jumpCount = 1
        /\ pl'.lastJumpTime = now]_vars

\* C19 witness: the player had used up its jumps in the air when the request
\* was recorded; a later update observed the landing and made the jump.
C19_Witness ==
  /\ lastCall.op = "Player.update"
  /\ lastCall.arg.landed /\ lastCall.arg.requested /\ lastCall.ret
  /\ lastCall.arg.jumpCount = pl.maxJumps
  /\ pl.onGround
  /\ pl.jumpBufferTime < now
  /\ pl.jumpBufferTime >= StartClock
  /\ pl.lastJumpTime = now
  /\ pl.jumpCount = 1
  /\ ~pl.jumpRequested
  /\ obj[player].velocity[2] = jumpForce

Tracked == TrackGround(pl, obj[player], now)

\* The first-jump condition of processJump in an update at the current time.
CanFirstJump == Tracked.onGround \/ now - Tracked.lastGroundedTime < coyoteTime

\* An update at the current time calls processJump.
JumpAttempted ==
  /\ ~pl.isDead
  /\ pl.jumpRequested
  /\ now - pl.jumpBufferTime < jumpBufferWindow

\* C21: a jump succeeds only 100 ms or more after the last successful jump;
\* an attempt made earlier returns false and leaves the vertical velocity of
\* the body, jumpCount, lastJumpTime and the pending request as they were.
C21_JumpCooldown ==
  [][lastCall'.op = "Player.update" =>
       ( /\ lastCall'.ret => now - pl.lastJumpTime >= jumpCooldown
         /\ (JumpAttempted /\ now - pl.lastJumpTime < jumpCooldown)
            => ( /\ ~lastCall'.ret
                 /\ obj'[player].velocity[2] = obj[player].velocity[2]
                 /\ pl'.jumpCount = Tracked.jumpCount
                 /\ pl'.lastJumpTime = pl.lastJumpTime
                 /\ pl'.jumpRequested ) )]_vars

\* C21 witness: a jump in the air has just been made, a second press inside
\* the cooldown was tried by an update and rejected, though a jump in the air
\* was still left.
C21_Witness ==
  /\ lastCall.op = "Player.update"
  /\ lastCall.arg.requested /\ ~lastCall.ret
  /\ pl.jumpRequested
  /\ now - pl.jumpBufferTime < jumpBufferWindow
  /\ pl.lastJumpTime >= StartClock
  /\ now - pl.lastJumpTime < jumpCooldown
  /\ ~pl.onGround
  /\ now - pl.lastGroundedTime >= coyoteTime
  /\ pl.jumpCount = 1
  /\ pl.jumpCount < pl.maxJumps

\* C22 as claimed: an attempt with the cooldown elapsed, made on the ground
\* or inside the coyote window (150 ms), succeeds as a first jump.
C22_FirstJumpInCoyoteTime ==
  [][( /\ lastCall'.op = "Player.update"
       /\ JumpAttempted
       /\ now - pl.lastJumpTime >= jumpCooldown
       /\ CanFirstJump )
     => /\ lastCall'.ret
        /\ obj'[player].velocity[2] = jumpForce
        /\ pl'.jumpCount = 1
        /\ pl'.lastJumpTime = now]_vars

\* C22, the part that holds: such an attempt succeeds as a first jump when
\* jumpCount is 0, and is rejected when it is not.
C22_FirstJumpWhenCountZero ==
  [][( /\ lastCall'.op = "Player.update"
       /\ JumpAttempted
       /\ now - pl.lastJumpTime >= jumpCooldown
       /\ CanFirstJump )
     => IF Tracked.jumpCount = 0
        THEN /\ lastCall'.ret
             /\ obj'[player].velocity[2] = jumpForce
             /\ pl'.jumpCount = 1
             /\ pl'.lastJumpTime = now
        ELSE /\ ~lastCall'.ret
             /\ obj'[player].velocity[2] = obj[player].velocity[2]
             /\ pl'.jumpCount = Tracked.jumpCount]_vars

\* C23: jumpCount stays within 0 .. maxJumps; a jump that succeeds without the
\* first-jump condition adds exactly 1 to jumpCount and sets the vertical
\* velocity to 0.9 * jumpForce; no such jump succeeds at jumpCount = maxJumps.
C23_JumpCountBounded ==
  /\ [](0 <= pl.jumpCount /\ pl.jumpCount <= pl.maxJumps)
  /\ [][(lastCall'.op = "Player.update" /\ ~pl.isDead /\ ~CanFirstJump) =>
          ( /\ lastCall'.ret
               => ( /\ pl'.jumpCount = pl.jumpCount + 1
                    /\ 10 * obj'[player].velocity[2] - 9 * jumpForce \in (0 - 5)..5
                    /\ obj'[player].velocity[2] < jumpForce )
            /\ pl.jumpCount = pl.maxJumps => ~lastCall'.ret )]_vars

\* C23 witness: the second jump in the air has been made, jumpCount is at
\* maxJumps.
C23_Witness ==
  /\ lastCall.op = "Player.update"
  /\ lastCall.ret
  /\ lastCall.arg.jumpCount = 1
  /\ ~pl.onGround
  /\ pl.jumpCount = pl.maxJumps
  /\ pl.lastJumpTime = now
  /\ obj[player].velocity[2] = Quot(9 * jumpForce, 10)

\* C24: an update of a living player resets jumpCount to 0 exactly when it
\* observes the landing (onGround of the player false, of its body true), and
\* before the jump of that update, which then counts as jump 1; in every
\* other update jumpCount does not decrease.
C24_ResetOnLandingOnly ==
  [][(lastCall'.op = "Player.update" /\ ~pl.isDead) =>
       IF ~pl.onGround /\ obj[player].onGround
       THEN /\ Tracked.jumpCount = 0
            /\ pl'.jumpCount = IF lastCall'.ret THEN 1 ELSE 0
       ELSE /\ Tracked.jumpCount = pl.jumpCount
            /\ pl'.jumpCount >= pl.jumpCount]_vars

\* C24 witness: an update without a pending request observed the landing of a
\* player that had made both jumps, jumpCount is 0 again.
C24_Witness ==
  /\ lastCall.op = "Player.update"
  /\ lastCall.arg.landed /\ ~lastCall.arg.requested
  /\ lastCall.arg.jumpCount = pl.maxJumps
  /\ pl.onGround
  /\ pl.jumpCount = 0

\* ------------------------------------------------- claim C25
\* C25 as claimed: after respawn() jumpCount is 0 and the pending-jump flag
\* (jumpRequested), the jump-boost flag (isJumping) and the direction-change
\* flag (hasChangedDirection) are cleared.
C25_RespawnResetsJumpState ==
  [][lastCall'.op = "respawn" =>
       /\ pl'.jumpCount = 0
       /\ ~pl'.jumpRequested
       /\ ~pl'.isJumping
       /\ ~pl'.movement.hasChangedDirection]_vars

\* C25, what respawn() does: health and isDead are reset, the player and its
\* body are put at the spawn position with the body at rest; the jump and
\* movement state is what it was when the player died.
C25_RespawnKeepsJumpState ==
  [][lastCall'.op = "respawn" =>
       /\ pl'.health = pl.maxHealth /\ ~pl'.isDead
       /\ pl'.position = <<0, 3600, 0>>
       /\ obj'[player].position = <<0, 3600, 0>>
       /\ obj'[player].velocity = Zero3
       /\ pl'.jumpCount = pl.jumpCount
       /\ pl'.jumpRequested = pl.jumpRequested
       /\ pl'.isJumping = pl.isJumping
       /\ pl'.onGround = pl.onGround
       /\ pl'.movement = pl.movement]_vars

\* ------------------------------------------------- claim C26
\* C26 as claimed: the forward boost is applied only for a first jump made on
\* the ground with move input at the time of the jump, and at most once per
\* jump.
C26_BoostOnlyForGroundedMovingJump ==
  [][(lastCall'.op = "Player.update" /\ lastCall'.arg.boost) =>
       /\ jumpLog'.first
       /\ jumpLog'.grounded
       /\ jumpLog'.input
       /\ jumpLog'.boosts = 1]_vars

\* C26, the part that holds: the boost is applied at most once per jump.
C26_BoostAtMostOncePerJump == jumpLog.boosts <= 1

\* ------------------------------------------------- claims C27 .. C29
\* C27: Movement.update leaves the vertical velocity of the body, the position
\* of the body and the position of the player as they were, with and without
\* input, walking or sprinting, on the ground and in the air.
C27_VerticalVelocityKept ==
  [][lastCall'.op = "Movement.update" =>
       /\ obj'[player].velocity[2] = obj[player].velocity[2]
       /\ obj'[player].position = obj[player].position
       /\ pl'.position = pl.position]_vars

\* C27 witness: an update changed the horizontal velocity of a body that was
\* moving upwards and left the vertical velocity alone.
C27_Witness ==
  /\ lastCall.op = "Movement.update"
  /\ lastCall.arg.before[2] = jumpForce
  /\ obj[player].velocity[2] = jumpForce
  /\ Horizontal(obj[player].velocity) # Horizontal(lastCall.arg.before)

\* The horizontal speed of the player's body.
HorizontalSpeed == Length(Horizontal(obj[player].velocity))

\* C28 as claimed: after a Movement.update with move input the horizontal
\* speed of the body is at most maxSpeed.
C28_SpeedWithinMax ==
  [][(lastCall'.op = "Movement.update" /\ lastCall'.arg.hasInput) =>
       HorizontalSpeed' <= maxSpeed]_vars

\* C28, the part that holds: the speed is at most maxSpeed after an update
\* that applies no jump boost, and at most maxSpeed plus the boost
\* (0.2 * walkSpeed) after one that does.
C28_SpeedWithinMaxBeforeBoost ==
  [][(lastCall'.op = "Movement.update" /\ lastCall'.arg.hasInput) =>
       HorizontalSpeed' <= IF lastCall'.arg.boost THEN maxSpeed + jumpBoostSpeed
                           ELSE maxSpeed]_vars

\* C29: after an update with input the direction-change flag is true only if
\* that update found a qualifying change, or the flag was true and the last
\* qualifying change is less than 100 ms old; a qualifying change sets the
\* flag and restarts the window (directionChangeTime, which nothing else
\* writes); without a previous direction the flag is false.
C29_DirectionChangeWindow ==
  [][(lastCall'.op = "Movement.update" /\ lastCall'.arg.hasInput) =>
       /\ pl'.movement.hasChangedDirection =
            ( \/ QualifyingChange
              \/ /\ pl.movement.hasChangedDirection
                 /\ now - pl.movement.directionChangeTime < directionChangeWindow
                 /\ Dot(pl.movement.lastDirection, pl.movement.lastDirection) # 0 )
       /\ pl'.movement.directionChangeTime =
            IF QualifyingChange THEN now ELSE pl.movement.directionChangeTime
       /\ pl'.movement.hasChangedDirection
            => now - pl'.movement.directionChangeTime < directionChangeWindow]_vars

\* C29 witness: the flag is still set after an update that found no change,
\* one frame after the change.
C29_Witness ==
  /\ lastCall.op = "Movement.update"
  /\ lastCall.arg.hasInput /\ ~lastCall.arg.changed
  /\ pl.movement.hasChangedDirection
  /\ pl.movement.directionChangeTime >= StartClock
  /\ pl.movement.directionChangeTime < now - LongFrame

\* ------------------------------------------------- claim C30
\* The deceleration of one update of deltaTime ms in velocity units:
\* 200 units/s^2 on the ground, 40 in the air.
StopDeceleration(onGround, deltaTime) ==
  IF onGround THEN 6 * deltaTime ELSE Quot(6 * deltaTime, 5)

Abs(x) == IF x < 0 THEN 0 - x ELSE x

\* C30: without move input an update sets the horizontal velocity to zero when
\* the speed is below 0.1, and otherwise takes min(speed, stopAccel * dt) off
\* the speed (to the precision of the grid) without turning any component
\* round; with updates that keep coming the horizontal velocity becomes zero
\* and stays zero.
C30_StopForce ==
  /\ [][(lastCall'.op = "Movement.update" /\ ~lastCall'.arg.hasInput) =>
          LET h == Horizontal(obj[player].velocity)
              h2 == Horizontal(obj'[player].velocity)
              speed == Length(h)
              d == Min(speed, StopDeceleration(pl.onGround, lastCall'.arg.deltaTime))
          IN IF speed < restSpeed \/ d = speed THEN h2 = Zero3
             ELSE /\ \A i \in {1, 3} : h2[i] * h[i] >= 0 /\ Abs(h2[i]) <= Abs(h[i])
                  /\ Length(h2) \in (speed - d - 2)..(speed - d + 2)
                  /\ Length(h2) < speed]_vars
  /\ <>[](Horizontal(obj[player].velocity) = Zero3)

\* C30 witness: a body in the air has come to rest horizontally, by the snap
\* below 0.1, after several updates.
C30_Witness ==
  /\ lastCall.op = "Movement.update"
  /\ ~lastCall.arg.hasInput
  /\ ~pl.onGround
  /\ Horizontal(lastCall.arg.before) # Zero3
  /\ Length(Horizontal(lastCall.arg.before)) < restSpeed
  /\ Horizontal(obj[player].velocity) = Zero3

\* ------------------------------------------------- claim C31
\* C31 as claimed: one call of update runs at most 5 fixed steps.
C31_AtMostFiveSteps ==
  [][lastCall'.op = "update" => steps' - steps <= 5]_vars

\* C31, what update does: it runs one fixed step for every whole time step in
\* the accumulator and keeps the remainder, discarding nothing.
C31_StepsUncapped ==
  [][lastCall'.op = "update" =>
       LET total == accumulator + (elapsed' - elapsed) IN
         /\ steps' - steps = total \div fixedTimeStep
         /\ accumulator' = total % fixedTimeStep]_vars

\* ------------------------------------------------- claim C32
\* C32 as claimed: the player's state changes only inside an update tick
\* (Player.update, or takeDamage called from the update of an attacker) or
\* through an input event, never in a timer callback between two ticks.
C32_ChangesOnlyInTicks ==
  [][pl' # pl =>
       lastCall'.op \in {"Player.update", "takeDamage", "keydown", "keyup"}]_vars

\* C32, what the code does: the respawn is the callback of the timer set by
\* die(); apart from it the player changes only in ticks and input events.
C32_RespawnIsTimerCallback ==
  [][pl' # pl =>
       \/ lastCall'.op \in {"Player.update", "takeDamage", "keydown", "keyup"}
       \/ /\ lastCall'.op = "respawn"
          /\ pl.isDead /\ ~pl'.isDead
          /\ now >= pl.respawnTimer]_vars

\* ------------------------------------------------- claim C33
\* The player's body after its ground check, and after the pair loops in
\* which it is body A, in a fixed step taken from the heap o.  The player's
\* body is the first dynamic body.
C33_AfterGroundCheck(o) ==
  With(ForcesLoop([obj |-> o, events |-> <<>>], bodies, 1, fixedTimeStep),
       LAMBDA p1 : GroundCheck(p1, player))

C33_AfterPairs(o) ==
  With(C33_AfterGroundCheck(o), LAMBDA g :
  With(DynamicLoop(g, bodies, 1, 2, player), LAMBDA p2 :
    StaticLoop(p2, player, staticBodies, 1, player)))

\* C33: within one fixed step the ground check of a dynamic body runs before
\* every pairwise test and resolution in which it is body A, and when a
\* resolution has set the player's onGround to true after the ground check
\* left it false, the step ends with onGround true.
C33_GroundCheckFirst ==
  /\ [](\A k \in 1..Len(events) :
          (events[k].kind \in {"test", "resolve"}) =>
            \E g \in 1..(k - 1) : events[g] = Ev("ground", events[k].a, Null))
  /\ [][(steps' = steps + 1 /\ player # Null) =>
          ((/\ ~C33_AfterGroundCheck(obj).obj[player].onGround
            /\ C33_AfterPairs(obj).obj[player].onGround)
             => obj'[player].onGround)]_vars

\* C33 witness: a step in which a contact of the player's body, far above the
\* ground threshold, with the body below it was resolved and left the player
\* on the ground.
C33_Witness ==
  /\ steps > 0
  /\ player # Null
  /\ obj[player].onGround
  /\ obj[player].position[2] >= 2 * groundThreshold
  /\ \E k \in 1..Len(events) :
       events[k].kind = "resolve" /\ events[k].a = player

\* ------------------------------------------------- claim C34
\* How often the event e is in the log ev.
C34_Count(ev, e) == Cardinality({k \in 1..Len(ev) : ev[k] = e})

\* C34: in the detectCollisions pass of a fixed step every dynamic body is
\* ground-checked exactly once, every pair of two dynamic bodies is tested
\* exactly once with the body of the lower index as A, every pair of a
\* dynamic and a static body is tested exactly once with the dynamic body as
\* A, and no test or resolution has a static body as A or a body with itself.
C34_EachPairOnce ==
  steps > 0 =>
    /\ \A b \in Range(bodies) : C34_Count(events, Ev("ground", b, Null)) = 1
    /\ \A i, j \in 1..Len(bodies) :
         C34_Count(events, Ev("test", bodies[i], bodies[j])) =
           IF i < j THEN 1 ELSE 0
    /\ \A a \in Range(bodies), b \in Range(staticBodies) :
         /\ C34_Count(events, Ev("test", a, b)) = 1
         /\ C34_Count(events, Ev("test", b, a)) = 0
    /\ \A k \in 1..Len(events) :
         events[k].kind \in {"test", "resolve"} =>
           /\ events[k].a \in Range(bodies)
           /\ events[k].b \in Range(bodies) \cup Range(staticBodies)
           /\ events[k].a # events[k].b
    /\ \A a, b \in Range(bodies) \cup Range(staticBodies) :
         C34_Count(events, Ev("resolve", a, b)) <=
           C34_Count(events, Ev("test", a, b))

\* C34 witness: a step over a world of two dynamic bodies, or of a dynamic
\* and a static body, that resolved the contact of its one pair.
C34_Witness ==
  /\ steps > 0
  /\ Len(bodies) + Len(staticBodies) >= 2
  /\ Len(bodies) >= 1
  /\ C34_Count(events, Ev("resolve", bodies[1],
                          IF Len(bodies) >= 2 THEN bodies[2]
                          ELSE staticBodies[1])) = 1

\* ------------------------------------------------- claim C35
\* C35 as claimed: after every completed fixed step every dynamic body has
\* position.y >= 0.
C35_NeverBelowGround ==
  steps > 0 => \A b \in Range(bodies) : obj[b].position[2] >= 0

\* C35, what the code keeps: a dynamic body, untouched by other bodies, that
\* starts a fixed step below the ground threshold ends it with
\* position.y >= 0; a body that starts it at or above the threshold ends it
\* at its height plus its velocity, below the ground or not.
C35_LiftedOneStepLater ==
  [][steps' = steps + 1 =>
       \A b \in Range(bodies) :
         Untouched(b, events') =>
           /\ obj[b].position[2] < groundThreshold => obj'[b].position[2] >= 0
           /\ obj[b].position[2] >= groundThreshold =>
                obj'[b].position[2] = obj[b].position[2] + obj'[b].velocity[2]]_vars

\* ------------------------------------------------- claim C36
\* C36 as claimed: at the end of a Player.update in which the player is on
\* the ground and did not jump, jumpCount is 0.
C36_GroundedCanJump ==
  (/\ lastCall.op = "Player.update"
   /\ ~pl.isDead
   /\ pl.onGround
   /\ lastCall.ret = FALSE) => pl.jumpCount = 0

\* C36, what the code does: jumpCount goes back to 0 only in an update that
\* sees the body on the ground after the update before it saw it in the air;
\* as long as the updates see the body on the ground, a jumpCount other than
\* 0 stays and no jump is made.
C36_LockedWhileGrounded ==
  [][(/\ lastCall'.op = "Player.update"
      /\ ~pl.isDead
      /\ pl.onGround /\ obj[player].onGround
      /\ pl.jumpCount # 0)
       => (pl'.jumpCount = pl.jumpCount /\ lastCall'.ret = FALSE)]_vars

\* ------------------------------------------------- claim C37
\* C37: a jump is made only in an update that finds a request pending inside
\* the buffer window, and that update clears the request; an update that
\* rejects the attempt inside the window leaves the request pending; the
\* first update after the window clears it without a jump; only the Space key
\* makes a request, so one press gives at most one jump.
C37_OneJumpPerPress ==
  /\ [][lastCall'.op = "Player.update" =>
          LET inWindow == now - pl.jumpBufferTime < jumpBufferWindow IN
            /\ lastCall'.ret = TRUE =>
                 (/\ pl.jumpRequested /\ inWindow /\ ~pl.isDead
                  /\ ~pl'.jumpRequested)
            /\ (pl.jumpRequested /\ ~pl.isDead /\ lastCall'.ret = FALSE) =>
                 (pl'.jumpRequested <=> inWindow)
            /\ ~pl.jumpRequested => ~pl'.jumpRequested]_vars
  /\ [][(pl'.jumpRequested /\ ~pl.jumpRequested) =>
          lastCall' = Call("keydown", "Space", Null)]_vars

\* C37 witness: after a jump made on an earlier press, an update has rejected
\* the attempt of a new press and left its request pending.
C37_Witness ==
  /\ lastCall.op = "Player.update"
  /\ lastCall.arg.requested
  /\ lastCall.ret = FALSE
  /\ pl.jumpRequested
  /\ pl.jumpCount > 0
  /\ ~pl.isDead

\* ------------------------------------------------- claim C38
\* C38: while the player is on the ground or inside the coyote time, counted
\* from the update that saw the body leave the ground, and jumpCount is not
\* 0, every jump attempt is rejected, also with jumpCount < maxJumps: the
\* count, the request and the body's velocity stay; a jump made with a
\* jumpCount other than 0 is made in the air, after the coyote time.
C38_NoSecondJumpInCoyoteTime ==
  /\ [][( /\ lastCall'.op = "Player.update"
          /\ JumpAttempted
          /\ CanFirstJump
          /\ Tracked.jumpCount # 0 )
        => /\ ~lastCall'.ret
           /\ pl'.jumpCount = Tracked.jumpCount
           /\ pl'.jumpRequested
           /\ obj'[player].velocity[2] = obj[player].velocity[2]]_vars
  /\ [][( /\ lastCall'.op = "Player.update"
          /\ lastCall'.ret = TRUE
          /\ Tracked.jumpCount # 0 )
        => /\ ~Tracked.onGround
           /\ now - Tracked.lastGroundedTime >= coyoteTime
           /\ pl'.jumpCount = Tracked.jumpCount + 1]_vars

\* C38 witness: after a jump from the ground the player is in the air, inside
\* the coyote time, the cooldown has passed, jumpCount is 1 < maxJumps, and
\* the update has rejected the attempt of the pending request.
C38_Witness ==
  /\ lastCall.op = "Player.update"
  /\ lastCall.arg.requested
  /\ lastCall.ret = FALSE
  /\ ~pl.isDead
  /\ pl.jumpRequested
  /\ now - pl.jumpBufferTime < jumpBufferWindow
  /\ now - pl.lastJumpTime >= jumpCooldown
  /\ jumpLog.grounded
  /\ pl.jumpCount = 1
  /\ pl.jumpCount < pl.maxJumps
  /\ ~pl.onGround
  /\ now - pl.lastGroundedTime < coyoteTime

\* ------------------------------------------------- claim C39
\* C39: under takeDamage and heal with amounts of 0 or more, respawns by the
\* timer and updates, the health stays within 0 .. maxHealth, the player is
\* dead exactly when its health is 0, neither takeDamage nor heal changes the
\* health of a dead player, and a damage is applied only 500 ms or more after
\* the damage applied before it.
C39_HealthInvariants ==
  /\ [](/\ pl.health \in 0..pl.maxHealth
        /\ pl.isDead <=> pl.health = 0)
  /\ [][(pl.isDead /\ lastCall'.op \in {"takeDamage", "heal"}) =>
          (pl'.health = pl.health /\ pl'.isDead)]_vars
  /\ [][(lastCall'.op = "takeDamage" /\ pl' # pl) =>
          /\ now - pl.lastDamageTime >= invulnerabilityDuration
          /\ pl'.lastDamageTime = now]_vars
  /\ [][pl'.lastDamageTime # pl.lastDamageTime =>
          lastCall'.op = "takeDamage"]_vars

\* C39 witness: a player that died of a damage 500 ms or more after the
\* start and respawned has now taken a damage of 30.
C39_Witness ==
  /\ lastCall = Call("takeDamage", 30, Null)
  /\ now >= StartClock + respawnDelay
  /\ pl.lastDamageTime = now
  /\ ~pl.isDead
  /\ pl.health = pl.maxHealth - 30
  /\ now - respawnDelay >= StartClock + invulnerabilityDuration

\* ------------------------------------------------- claim C40
\* The zombie has made an attack in the step.
C40_Attacked == lastCall'.op = "Zombie.update" /\ lastCall'.ret = TRUE

\* The removal timer is set in the step.
C40_Scheduled == zombie'.removals # zombie.removals

\* The parts of C40 on the state: 'death' is never left, a zombie in it makes
\* no attack and does not hurt the player, and at most one removal timer is
\* set, by an update of a zombie in the state 'death'.
C40_Absorbing ==
  /\ [][zombie.state = "death" =>
          /\ zombie'.state = "death"
          /\ ~C40_Attacked
          /\ pl' = pl
          /\ zombie'.lastAttackTime = zombie.lastAttackTime
          /\ zombie'.velocity = 0]_vars
  /\ [](/\ zombie.removals = (IF zombie.isAlive THEN 0 ELSE 1)
        /\ (zombie.health <= 0 => zombie.state = "death")
        /\ zombie.removed => zombie.removals = 1)
  /\ [][C40_Scheduled =>
          /\ lastCall'.op = "Zombie.update"
          /\ zombie.state = "death"]_vars

\* C40 as claimed: with that, the removal is scheduled no earlier than 2 s
\* after the state became 'death'.
C40_DeathAbsorbing ==
  /\ C40_Absorbing
  /\ [][C40_Scheduled => now - zombie.deathTime >= deathDelay]_vars

\* C40 amended: with that, the removal is scheduled by the first update that
\* finds more than 2 s of update time (the sum of the deltaTime of the updates
\* since the state became 'death') on the state's timer; the deltaTime of the
\* first of these updates counts in full, so this is later than 2 s less one
\* frame after the state became 'death'.
C40_DeathAbsorbingUpdateTime ==
  /\ C40_Absorbing
  /\ [][C40_Scheduled =>
          /\ zombie.timeSinceLastStateChange <= deathDelay
          /\ zombie'.timeSinceLastStateChange > deathDelay
          /\ now - zombie.deathTime > deathDelay - SlowFrame]_vars
  /\ [][(/\ lastCall'.op = "Zombie.update"
         /\ zombie.state = "death"
         /\ zombie'.timeSinceLastStateChange > deathDelay) =>
          (~zombie'.isAlive /\ zombie'.removalTimer # Null)]_vars

\* C40 witness: a zombie that had attacked the player was hit to death in a
\* frame before its update; the removal was scheduled once, less than 2 s
\* after the hit, and the zombie has been removed.
C40_Witness ==
  /\ zombie.removed
  /\ zombie.state = "death"
  /\ zombie.removals = 1
  /\ zombie.lastAttackTime > 0
  /\ pl.health < pl.maxHealth
  /\ zombie.removalTimer - removalDelay - zombie.deathTime < deathDelay

====
